---------------------------- MODULE Spec2Model ----------------------------
(***************************************************************************)
(* Model of the MQTT -> OpenTSDB exporter (src/main.py).                   *)
(*                                                                         *)
(* Python strings that the code inspects character by character (topics,   *)
(* override patterns) are sequences of one-character strings.  A Python    *)
(* dict is a function whose DOMAIN is the set of keys; None is the value    *)
(* NONE.  dict.update(d) is  d @@ self.                                     *)
(***************************************************************************)
EXTENDS Integers, Sequences, FiniteSets, TLC

\* ------------------------------------------------------------------------
\* Program constants (src/main.py:24-35)
\* ------------------------------------------------------------------------
EXTRA_TAGS_KEY == "extra_tags"
VALUE_REPLACEMENT_KEY == "value_replacement"
JSON_MULTI_VALUE_KEY == "json_multi_value"
METRIC_PREFIX_KEY == "metric_prefix"

\* Python's None and True inside a dict of scalar fields.
NONE == "<None>"
PY_TRUE == "<True>"

EmptyDict == <<>>

\* ------------------------------------------------------------------------
\* Strings as character sequences
\* ------------------------------------------------------------------------
\* str.split(sep) for a one-character separator.
RECURSIVE SplitFrom(_, _, _, _)
SplitFrom(s, sep, i, cur) ==
    IF i > Len(s) THEN <<cur>>
    ELSE IF s[i] = sep THEN <<cur>> \o SplitFrom(s, sep, i + 1, <<>>)
    ELSE SplitFrom(s, sep, i + 1, Append(cur, s[i]))

Split(s, sep) == SplitFrom(s, sep, 1, <<>>)

\* f"{topic[0]}:{topic[1]}"
SubKey(topic, sub) == topic \o <<":">> \o sub

\* ------------------------------------------------------------------------
\* paho.mqtt.client.topic_matches_sub as called at src/main.py:165
\* (MQTTMatcher: the subscription is split into levels, '+' matches exactly
\* one level, '#' as the last level matches the remainder including the
\* parent level, and a topic starting with '$' is not matched by a wildcard
\* in the first level).
\* ------------------------------------------------------------------------
RECURSIVE MatchFrom(_, _, _, _)
MatchFrom(sl, lst, i, normal) ==
    LET hashHere == /\ Len(sl) = i
                    /\ sl[i] = <<"#">>
                    /\ (normal \/ i > 1)
    IN  IF i = Len(lst) + 1
        THEN Len(sl) = Len(lst) \/ hashHere
        ELSE \/ /\ Len(sl) >= i
                /\ sl[i] = lst[i]
                /\ MatchFrom(sl, lst, i + 1, normal)
             \/ /\ Len(sl) >= i
                /\ sl[i] = <<"+">>
                /\ (normal \/ i > 1)
                /\ MatchFrom(sl, lst, i + 1, normal)
             \/ hashHere

topic_matches_sub(sub, topic) ==
    MatchFrom(Split(sub, "/"), Split(topic, "/"), 1,
              ~(Len(topic) > 0 /\ topic[1] = "$"))

\* ------------------------------------------------------------------------
\* sort_subs_by_specificity (src/main.py:152-177)
\* Scores are kept as integers: ten times the Python value
\* (weight 1 -> 10, 0.6 -> 6, 0.5 -> 5).
\* ------------------------------------------------------------------------
CharWeight(c) == IF c = "+" THEN 6 ELSE IF c = "#" THEN 5 ELSE 10

RECURSIVE SpecificityFrom(_, _)
SpecificityFrom(sub, i) ==
    IF i > Len(sub) THEN 0
    ELSE CharWeight(sub[i]) * i + SpecificityFrom(sub, i + 1)

Specificity(sub) == SpecificityFrom(sub, 1)

\* The Python score is a sum of doubles (src/main.py:166-172).  The weight
\* 0.6 is not a double, so the sum can end one unit in the last place above
\* the double nearest to the exact score.  DoubleExcess is that distance for
\* the patterns of this module: zero for all of them but dt/a/+/+/p, whose
\* sum is 49.400000000000006 where dt/+/c/t/+ sums to 49.4.
DoubleExcess(sub) ==
    IF sub = <<"d", "t", "/", "a", "/", "+", "/", "+", "/", "p">> THEN 1
    ELSE 0

\* The sort key: the double sum, as an integer that orders like it (exact
\* scores differ by a tenth or more, the excess is far below that).
FloatScore(sub) == 2 * Specificity(sub) + DoubleExcess(sub)

\* Stable insertion of a (specificity, sub) pair: after every element whose
\* score is less than or equal to its own.
RECURSIVE InsertStable(_, _)
InsertStable(sorted, m) ==
    IF sorted = <<>> THEN <<m>>
    ELSE IF sorted[Len(sorted)][1] <= m[1] THEN Append(sorted, m)
    ELSE Append(InsertStable(SubSeq(sorted, 1, Len(sorted) - 1), m),
                sorted[Len(sorted)])

RECURSIVE StableSort(_)
StableSort(matches) ==
    IF matches = <<>> THEN <<>>
    ELSE InsertStable(StableSort(SubSeq(matches, 1, Len(matches) - 1)),
                      matches[Len(matches)])

RECURSIVE MatchesOf(_, _)
MatchesOf(topic, subs) ==
    IF subs = <<>> THEN <<>>
    ELSE LET rest == MatchesOf(topic, Tail(subs))
         IN  IF topic_matches_sub(Head(subs), topic)
             THEN <<<<FloatScore(Head(subs)), Head(subs)>>>> \o rest
             ELSE rest

\* Fault variant: the matches are returned in table order, the sort at
\* src/main.py:175 left out.
sort_subs_by_specificity_unsorted(topic, subs) ==
    LET found == MatchesOf(topic, subs)
    IN  [i \in 1..Len(found) |-> found[i][2]]

sort_subs_by_specificity(topic, subs) ==
    LET sorted == StableSort(MatchesOf(topic, subs))
    IN  [i \in 1..Len(sorted) |-> sorted[i][2]]


\* ------------------------------------------------------------------------
\* Override table values
\*   A table is a sequence of entries [key, val] in insertion order with
\*   distinct keys.  val.null = TRUE is the YAML null.  val.sc holds the
\*   scalar fields (app, context, thing, property, metric_prefix,
\*   json_multi_value), val.et / val.vr the extra_tags / value_replacement
\*   members: st = "absent" (no such key), "null" (None) or "map".
\* ------------------------------------------------------------------------
Absent == [st |-> "absent", m |-> EmptyDict]
Null == [st |-> "null", m |-> EmptyDict]
Map(m) == [st |-> "map", m |-> m]

NullSpec == [null |-> TRUE, sc |-> EmptyDict, et |-> Absent, vr |-> Absent]
OvSpec(sc, et, vr) == [null |-> FALSE, sc |-> sc, et |-> et, vr |-> vr]

\* dict.keys() / dict.get(key, default) on a table
TableKeys(tbl) == [i \in 1..Len(tbl) |-> tbl[i].key]

HasKey(tbl, key) == \E i \in 1..Len(tbl) : tbl[i].key = key

TableGet(tbl, key, default) ==
    IF HasKey(tbl, key)
    THEN tbl[CHOOSE i \in 1..Len(tbl) : tbl[i].key = key].val
    ELSE default

\* ------------------------------------------------------------------------
\* get_topic_override_config._get_override (src/main.py:203-273)
\* ------------------------------------------------------------------------
\* The three accumulators output_override, output_extra_tags,
\* output_value_replacement (src/main.py:204-206).
EmptyAcc == [sc |-> EmptyDict, et |-> EmptyDict, vr |-> EmptyDict]

\* sub_map = sub_override.pop(KEY, {}); update the accumulator unless it is
\* None, in which case the accumulator is reset (src/main.py:251-263 and
\* 221-233).
MergeSubMap(out, sub_map) ==
    IF sub_map.st = "null" THEN EmptyDict
    ELSE IF sub_map.st = "map" THEN sub_map.m @@ out
    ELSE out

\* Fault variant: a null pattern resets output_override only and leaves the
\* two sub-map accumulators as they are.
FoldPattern_keeps_sub_maps(acc, raw) ==
    IF raw.null
    THEN [sc |-> EmptyDict, et |-> acc.et, vr |-> acc.vr]
    ELSE [sc |-> raw.sc @@ acc.sc,
          et |-> MergeSubMap(acc.et, raw.et),
          vr |-> MergeSubMap(acc.vr, raw.vr)]

\* One pattern of the loop at src/main.py:241-265.
FoldPattern(acc, raw) ==
    IF raw.null
    THEN EmptyAcc
    ELSE [sc |-> raw.sc @@ acc.sc,
          et |-> MergeSubMap(acc.et, raw.et),
          vr |-> MergeSubMap(acc.vr, raw.vr)]

RECURSIVE FoldSubs(_, _, _)
FoldSubs(tbl, subs, acc) ==
    IF subs = <<>> THEN acc
    ELSE FoldSubs(tbl, Tail(subs),
                  FoldPattern(acc, TableGet(tbl, Head(subs),
                                            OvSpec(EmptyDict, Absent, Absent))))

\* src/main.py:267-273: a sub-map is stored only when it has keys, and
\* None-valued top-level keys are dropped.
DropNone(d) == [k \in {x \in DOMAIN d : d[x] # NONE} |-> d[k]]

Finish(acc) ==
    [sc |-> DropNone(acc.sc),
     has_et |-> DOMAIN acc.et # {},
     et |-> acc.et,
     has_vr |-> DOMAIN acc.vr # {},
     vr |-> acc.vr]

EmptyResult ==
    [sc |-> EmptyDict, has_et |-> FALSE, et |-> EmptyDict,
     has_vr |-> FALSE, vr |-> EmptyDict]

\* Base-topic branch (src/main.py:237-265, then 267-273).
GetOverrideBase(tbl, topic) ==
    Finish(FoldSubs(tbl, sort_subs_by_specificity(topic, TableKeys(tbl)),
                    EmptyAcc))

\* Sub-value branch (src/main.py:208-235, then 267-273): the result.
GetOverrideSub(tbl, topic, sub) ==
    LET base == GetOverrideBase(tbl, topic)
        sub_override == TableGet(tbl, SubKey(topic, sub),
                                 OvSpec(EmptyDict, Absent, Absent))
    IN  IF sub_override.null
        THEN EmptyResult
        ELSE Finish([sc |-> sub_override.sc @@ base.sc,
                     et |-> MergeSubMap(base.et, sub_override.et),
                     vr |-> MergeSubMap(base.vr, sub_override.vr)])

\* Sub-value branch: what sub_override.pop(...) at src/main.py:221 and 228
\* leaves in the table.  sub_override is the table's own dict (no copy is
\* taken at src/main.py:215), so both members are removed from the entry.
PopSubMaps(tbl, topic, sub) ==
    [i \in 1..Len(tbl) |->
        IF tbl[i].key = SubKey(topic, sub) /\ ~tbl[i].val.null
        THEN [key |-> tbl[i].key,
              val |-> [tbl[i].val EXCEPT !.et = Absent, !.vr = Absent]]
        ELSE tbl[i]]


\* The call _get_override(topic): the value returned and the table as the
\* call leaves it.  key.is_sub tells a (topic, sub-value) tuple from a plain
\* topic string (isinstance(topic, tuple), src/main.py:208).
get_override(tbl, key) ==
    IF key.is_sub
    THEN [res |-> GetOverrideSub(tbl, key.topic, key.sub),
          tbl |-> PopSubMaps(tbl, key.topic, key.sub)]
    ELSE [res |-> GetOverrideBase(tbl, key.topic), tbl |-> tbl]

TopicKey(topic) == [topic |-> topic, sub |-> <<>>, is_sub |-> FALSE]
TupleKey(topic, sub) == [topic |-> topic, sub |-> sub, is_sub |-> TRUE]

\* ------------------------------------------------------------------------
\* functools.lru_cache around _get_override (src/main.py:278-289).
\* The cache is a sequence of [key, res], least recently used first.
\* ------------------------------------------------------------------------
\* lru_cache_size (src/main.py:184), scaled down.
LruCacheSize == 1

CacheHit(c, key) == \E i \in 1..Len(c) : c[i].key = key

CacheIndex(c, key) == CHOOSE i \in 1..Len(c) : c[i].key = key

RemoveAt(q, i) == SubSeq(q, 1, i - 1) \o SubSeq(q, i + 1, Len(q))

CacheTouch(c, key) ==
    Append(RemoveAt(c, CacheIndex(c, key)), c[CacheIndex(c, key)])

CacheInsert(c, key, res) ==
    LET room == IF Len(c) >= LruCacheSize THEN Tail(c) ELSE c
    IN  Append(room, [key |-> key, res |-> res])

\* get_topic_override_config (src/main.py:180-289): the value returned, the
\* table and the cache after the call.  tbl is the one table object the
\* program hands to every call (src/main.py:137-146, 400-407), so the table
\* the cached function closed over (src/main.py:275-278) is tbl itself.
get_topic_override_config(tbl, c, key, disable_cache) ==
    LET computed == get_override(tbl, key)
    IN  IF disable_cache
        THEN [res |-> computed.res, tbl |-> computed.tbl, cache |-> c]
        ELSE IF CacheHit(c, key)
        THEN [res |-> c[CacheIndex(c, key)].res,
              tbl |-> tbl,
              cache |-> CacheTouch(c, key)]
        ELSE [res |-> computed.res,
              tbl |-> computed.tbl,
              cache |-> CacheInsert(c, key, computed.res)]

\* ------------------------------------------------------------------------
\* Python scalars
\*   A value is a token: "i:<n>" an int, "f:<x>" a float, "s:<text>" a str,
\*   "b:True" a bool, "null" None, "x:list" / "x:dict" a container where a
\*   scalar is expected.  The conversions int(), float(), str() and dict-key
\*   equality are tabulated for the tokens the model uses.
\* ------------------------------------------------------------------------
IntToks == {"i:25", "i:42", "i:-1", "i:1"}
FloatToks ==
    {"f:25.5", "f:25.0", "f:42.0", "f:-1.0", "f:1.0", "f:nan", "f:inf"}
StrToks ==
    {"s:25", "s:42", "s:-1", "s:1", "s:25.5", "s:25.0", "s:42.0", "s:-1.0",
     "s:1.0", "s:nan", "s:inf", "s:True", "s:foo", "s:bar", "s:{bad",
     "s:{}", "s:{...}", "s:repr", "s:toolong", "s:toolo"}
BoolToks == {"b:True"}

IsStr(v) == v \in StrToks
IsFloat(v) == v \in FloatToks
\* isinstance(v, int): bool is a subclass of int
IsInt(v) == v \in IntToks \cup BoolToks
IsBool(v) == v \in BoolToks
IsNumber(v) == IsInt(v) \/ IsFloat(v)

\* The outcome of an expression: a value, or the exception it raises.
Ok(v) == [exc |-> "none", v |-> v]
Raise(e) == [exc |-> e, v |-> NONE]

IntOfFloat ==
    ("f:25.5" :> "i:25") @@ ("f:25.0" :> "i:25") @@ ("f:42.0" :> "i:42")
        @@ ("f:-1.0" :> "i:-1") @@ ("f:1.0" :> "i:1")

IntOfStr ==
    ("s:25" :> "i:25") @@ ("s:42" :> "i:42") @@ ("s:-1" :> "i:-1")
        @@ ("s:1" :> "i:1")

FloatOfInt ==
    ("i:25" :> "f:25.0") @@ ("i:42" :> "f:42.0") @@ ("i:-1" :> "f:-1.0")
        @@ ("i:1" :> "f:1.0") @@ ("b:True" :> "f:1.0")

FloatOfStr ==
    ("s:25" :> "f:25.0") @@ ("s:42" :> "f:42.0") @@ ("s:-1" :> "f:-1.0")
        @@ ("s:1" :> "f:1.0") @@ ("s:25.5" :> "f:25.5")
        @@ ("s:25.0" :> "f:25.0") @@ ("s:42.0" :> "f:42.0")
        @@ ("s:-1.0" :> "f:-1.0") @@ ("s:1.0" :> "f:1.0")
        @@ ("s:nan" :> "f:nan") @@ ("s:inf" :> "f:inf")

StrOfNumber ==
    ("i:25" :> "s:25") @@ ("i:42" :> "s:42") @@ ("i:-1" :> "s:-1")
        @@ ("i:1" :> "s:1") @@ ("b:True" :> "s:True")
        @@ ("f:25.5" :> "s:25.5") @@ ("f:25.0" :> "s:25.0")
        @@ ("f:42.0" :> "s:42.0") @@ ("f:-1.0" :> "s:-1.0")
        @@ ("f:1.0" :> "s:1.0") @@ ("f:nan" :> "s:nan")
        @@ ("f:inf" :> "s:inf")

\* int(v)
PyInt(v) ==
    CASE v \in IntToks -> Ok(v)
      [] v = "b:True" -> Ok("i:1")
      [] v \in DOMAIN IntOfFloat -> Ok(IntOfFloat[v])
      [] v = "f:nan" -> Raise("ValueError")
      [] v = "f:inf" -> Raise("OverflowError")
      [] v \in DOMAIN IntOfStr -> Ok(IntOfStr[v])
      [] v \in StrToks \ DOMAIN IntOfStr -> Raise("ValueError")
      [] OTHER -> Raise("TypeError")

\* float(v)
PyFloat(v) ==
    CASE v \in FloatToks -> Ok(v)
      [] v \in DOMAIN FloatOfInt -> Ok(FloatOfInt[v])
      [] v \in DOMAIN FloatOfStr -> Ok(FloatOfStr[v])
      [] v \in StrToks \ DOMAIN FloatOfStr -> Raise("ValueError")
      [] OTHER -> Raise("TypeError")

\* str(v) of a scalar
PyStr(v) ==
    CASE v \in DOMAIN StrOfNumber -> StrOfNumber[v]
      [] v \in StrToks -> v
      [] OTHER -> "s:repr"

\* value[:max_str_len]: "toolong" is the one text longer than max_str_len.
Truncate(v) == IF v = "s:toolong" THEN "s:toolo" ELSE v

\* The dict key a value hashes and compares equal to: 25 == 25.0 and
\* True == 1 are one key, a str is a key of its own, nan equals nothing.
DictKey(v) ==
    CASE v \in {"i:25", "f:25.0"} -> "n:25"
      [] v \in {"i:42", "f:42.0"} -> "n:42"
      [] v \in {"i:-1", "f:-1.0"} -> "n:-1"
      [] v \in {"i:1", "f:1.0", "b:True"} -> "n:1"
      [] v = "f:nan" -> "n:nan"
      [] OTHER -> v

\* v == int(v) for a float v; raises what int(v) raises.
EqualsItsInt(v) ==
    IF PyInt(v).exc # "none" THEN PyInt(v) ELSE Ok(DictKey(PyInt(v).v) = DictKey(v))

\* ------------------------------------------------------------------------
\* find_value_replacement (src/main.py:550-594).  d is the resolved
\* value_replacement dict (keys are DictKey values); outcome value NONE is
\* Python's None.
\* ------------------------------------------------------------------------
find_value_replacement(value, d) ==
    LET has(k) == k # "f:nan" /\ DictKey(k) \in DOMAIN d
        get(k) == Ok(d[DictKey(k)])
    IN  IF DOMAIN d = {} THEN Ok(NONE)
        ELSE IF IsStr(value)
        THEN IF has(Truncate(value)) THEN get(Truncate(value)) ELSE Ok(NONE)
        ELSE IF IsNumber(value)
        THEN IF has(value) THEN get(value)
             ELSE IF has(PyStr(value)) THEN get(PyStr(value))
             ELSE IF IsFloat(value) /\ EqualsItsInt(value).exc # "none"
             THEN Raise(EqualsItsInt(value).exc)
             ELSE IF IsFloat(value) /\ EqualsItsInt(value).v = TRUE
                        /\ has(PyInt(value).v)
             THEN get(PyInt(value).v)
             ELSE IF IsFloat(value) /\ EqualsItsInt(value).v = TRUE
                        /\ has(PyStr(PyInt(value).v))
             THEN get(PyStr(PyInt(value).v))
             ELSE IF IsInt(value) /\ has(PyFloat(value).v)
             THEN get(PyFloat(value).v)
             ELSE IF IsInt(value) /\ has(PyStr(PyFloat(value).v))
             THEN get(PyStr(PyFloat(value).v))
             ELSE Ok(NONE)
        ELSE Ok(NONE)

\* ------------------------------------------------------------------------
\* normalize_value (src/main.py:597-646).  vr is
\* topic_override.get("value_replacement", {}).
\* ------------------------------------------------------------------------
\* Lines 627-646, entered with the possibly replaced value.
RECURSIVE normalize_value(_, _)
\* Fault variant: was_replaced (src/main.py:643) is not looked at, a parsed
\* replacement is normalized again.
ParseValue_looks_up_again(value, was_replaced, vr) ==
    IF IsNumber(value) THEN Ok(value)
    ELSE IF PyInt(value).exc = "TypeError" THEN Ok("i:-1")
    ELSE IF PyInt(value).exc = "none"
    THEN normalize_value(PyInt(value).v, vr)
    ELSE IF PyFloat(value).exc = "none"
    THEN normalize_value(PyFloat(value).v, vr)
    ELSE IF IsStr(value) THEN Ok(Truncate(value))
    ELSE Ok("i:-1")
ParseValue(value, was_replaced, vr) ==
    IF IsNumber(value) THEN Ok(value)
    ELSE IF PyInt(value).exc = "TypeError" THEN Ok("i:-1")
    ELSE IF PyInt(value).exc = "none"
    THEN IF was_replaced THEN PyInt(value)
         ELSE normalize_value(PyInt(value).v, vr)
    ELSE IF PyFloat(value).exc = "none"
    THEN IF was_replaced THEN PyFloat(value)
         ELSE normalize_value(PyFloat(value).v, vr)
    ELSE IF IsStr(value) THEN Ok(Truncate(value))
    ELSE Ok("i:-1")

normalize_value(value, vr) ==
    IF DOMAIN vr # {}
    THEN LET found == find_value_replacement(value, vr)
         IN  IF found.exc # "none" THEN found
             ELSE IF found.v = NONE THEN ParseValue(value, FALSE, vr)
             ELSE IF IsNumber(found.v) \/ IsStr(found.v)
             THEN ParseValue(found.v, TRUE, vr)
             ELSE Ok("i:-1")
    ELSE ParseValue(value, FALSE, vr)

\* ------------------------------------------------------------------------
\* Decoded JSON values: a scalar token, a dict (its items in insertion
\* order) or a list (items with k = "").
\* ------------------------------------------------------------------------
VALUES_KEY == "values"
VALUE_KEY == "value"

Sc(tok) == [kind |-> "scalar", tok |-> tok, items |-> <<>>]
Obj(items) == [kind |-> "dict", tok |-> "x:dict", items |-> items]
Arr(items) == [kind |-> "list", tok |-> "x:list", items |-> items]
Item(k, v) == [k |-> k, v |-> v]

IsDict(j) == j.kind = "dict"
IsList(j) == j.kind = "list"

DictHas(o, k) == \E i \in 1..Len(o.items) : o.items[i].k = k

\* dict[k] for a key that is present
DictAt(o, k) == o.items[CHOOSE i \in 1..Len(o.items) : o.items[i].k = k].v

RECURSIVE ItemsWithout(_, _)
ItemsWithout(items, k) ==
    IF items = <<>> THEN <<>>
    ELSE IF Head(items).k = k THEN ItemsWithout(Tail(items), k)
    ELSE <<Head(items)>> \o ItemsWithout(Tail(items), k)

\* the dict after dict.pop(k)
DictWithout(o, k) == Obj(ItemsWithout(o.items, k))

\* {**a, **b}: a's keys keep their place and take b's value, b's new keys
\* follow.
DictMerge_first_wins(a, b) ==
    Obj(a.items \o SelectSeq(b.items, LAMBDA it : ~DictHas(a, it.k)))
DictMerge(a, b) ==
    LET kept == [i \in 1..Len(a.items) |->
                    IF DictHas(b, a.items[i].k)
                    THEN Item(a.items[i].k, DictAt(b, a.items[i].k))
                    ELSE a.items[i]]
        added == SelectSeq(b.items, LAMBDA it : ~DictHas(a, it.k))
    IN  Obj(kept \o added)

\* The characters of a JSON key that is used as a sub-value name.
Chars(k) ==
    CASE k = "x" -> <<"x">>
      [] k = "y" -> <<"y">>
      [] k = VALUE_KEY -> <<"v", "a", "l", "u", "e">>
      [] OTHER -> <<"?">>

\* ------------------------------------------------------------------------
\* process_items: payload decomposition (src/main.py:327-393)
\*   payload.json = "no"      the text is not wrapped in {} or []
\*                  "invalid" json.loads raises ValueError
\*                  "valid"   payload.j is the decoded dict or list
\*   The outcome is the list `values` of (val_topic, val_payload) pairs.
\* ------------------------------------------------------------------------
Frag(vt, vp) == [vt |-> vt, vp |-> vp]

\* {**base_tags, **v} if isinstance(v, dict) else {**base_tags, "value": v}
WithBaseTags(base_tags, v) ==
    IF IsDict(v) THEN DictMerge(base_tags, v)
    ELSE DictMerge(base_tags, Obj(<<Item(VALUE_KEY, v)>>))

RECURSIVE FlattenSeq(_)
FlattenSeq(ss) ==
    IF ss = <<>> THEN <<>> ELSE Head(ss) \o FlattenSeq(Tail(ss))

\* src/main.py:373-380: one fragment per top-level key, a list value gives
\* one fragment per element.
MultiValueOfDict(topic, o) ==
    FlattenSeq([i \in 1..Len(o.items) |->
        LET k == Chars(o.items[i].k)
            v == o.items[i].v
        IN  IF ~IsList(v) THEN <<Frag(TupleKey(topic, k), v)>>
            ELSE [n \in 1..Len(v.items) |->
                     Frag(TupleKey(topic, k), v.items[n].v)]])

\* src/main.py:385-387: iv.items() for every element iv of the list.
MultiValueOfList(topic, l) ==
    IF \E i \in 1..Len(l.items) : ~IsDict(l.items[i].v)
    THEN Raise("AttributeError")
    ELSE Ok(FlattenSeq([i \in 1..Len(l.items) |->
             [n \in 1..Len(l.items[i].v.items) |->
                 Frag(TupleKey(topic, Chars(l.items[i].v.items[n].k)),
                      l.items[i].v.items[n].v)]]))

IsMultiValue_always(topic_override) == TRUE
IsMultiValue(topic_override) ==
    /\ JSON_MULTI_VALUE_KEY \in DOMAIN topic_override.sc
    /\ topic_override.sc[JSON_MULTI_VALUE_KEY] = PY_TRUE

Decompose(topic, payload, topic_override) ==
    LET j == payload.j
        whole == <<Frag(TopicKey(topic), j)>>
    IN  IF payload.json # "valid" THEN Ok(whole)
        ELSE IF IsDict(j)
        THEN IF DictHas(j, VALUES_KEY) /\ IsDict(DictAt(j, VALUES_KEY))
             THEN LET base_tags == DictWithout(j, VALUES_KEY)
                      vs == DictAt(j, VALUES_KEY).items
                  IN  Ok([i \in 1..Len(vs) |->
                            Frag(TupleKey(topic, Chars(vs[i].k)),
                                 WithBaseTags(base_tags, vs[i].v))])
             ELSE IF DictHas(j, VALUES_KEY) /\ IsList(DictAt(j, VALUES_KEY))
             THEN LET base_tags == DictWithout(j, VALUES_KEY)
                      vs == DictAt(j, VALUES_KEY).items
                  IN  Ok([i \in 1..Len(vs) |->
                            Frag(TopicKey(topic),
                                 WithBaseTags(base_tags, vs[i].v))])
             ELSE IF IsMultiValue(topic_override)
             THEN Ok(MultiValueOfDict(topic, j))
             ELSE Ok(whole)
        ELSE IF IsMultiValue(topic_override)
        THEN MultiValueOfList(topic, j)
        ELSE Ok([i \in 1..Len(j.items) |->
                    Frag(TopicKey(topic), j.items[i].v)])

\* ------------------------------------------------------------------------
\* extract_payload_tags_and_value (src/main.py:509-547): the value part.
\* Outcome value NONE is the `return {}, None` of the ValueError handler.
\* ------------------------------------------------------------------------
extract_value_missing_is_none(vp, vr) ==
    IF IsDict(vp)
    THEN LET value == IF DictHas(vp, VALUE_KEY)
                      THEN DictAt(vp, VALUE_KEY).tok
                      ELSE NONE
             r == IF value = NONE THEN Ok(NONE) ELSE normalize_value(value, vr)
         IN  IF r.exc = "ValueError" THEN Ok(NONE) ELSE r
    ELSE normalize_value(vp.tok, vr)
extract_value(vp, vr) ==
    IF IsDict(vp)
    THEN LET value == IF DictHas(vp, VALUE_KEY)
                      THEN DictAt(vp, VALUE_KEY).tok
                      ELSE "i:-1"
             r == normalize_value(value, vr)
         IN  IF r.exc = "ValueError" THEN Ok(NONE) ELSE r
    ELSE normalize_value(vp.tok, vr)

\* str(val_payload) at src/main.py:441, after "value" was popped from it.
StrOfFragment_with_value(vp) ==
    IF IsDict(vp) /\ vp.items = <<>> THEN "s:{}"
    ELSE IF IsDict(vp) THEN "s:{...}"
    ELSE PyStr(vp.tok)
StrOfFragment(vp) ==
    IF IsDict(vp) /\ DictWithout(vp, VALUE_KEY).items = <<>> THEN "s:{}"
    ELSE IF IsDict(vp) THEN "s:{...}"
    ELSE PyStr(vp.tok)

\* ------------------------------------------------------------------------
\* Tags (src/main.py:445-547, 649-751).  A tag value is a text taken from
\* the topic (cs, a sequence of characters) or a scalar taken from the
\* payload or the override (tok).
\* ------------------------------------------------------------------------
TIMESTAMP_KEY == "timestamp"
PROPERTY_KEY == "property"
TOPIC_KEY == "topic"
VAL_KEY == "val"
STRING_LABEL_SUFFIX == "_info"
DEFAULT_METRIC_PREFIX == "mqtt__"

TagStr(cs) == [tok |-> "", cs |-> cs]
TagTok(tok) == [tok |-> tok, cs |-> <<>>]

\* None as a tag value or as the context
TagNone == TagTok(NONE)

\* int(timestamp) of the arrival time of the message (src/main.py:473)
ArrivalTime == TagTok("i:arrival")

\* The characters of [ \w-] that topics of the model are written in.
WordChars == {"a", "b", "c", "d", "p", "q", "t", "u", "x", "y", "_", "-", " "}

IsWord(seg) == \A i \in 1..Len(seg) : seg[i] \in WordChars

NoMatch ==
    [matched |-> FALSE, app |-> <<>>, context |-> <<>>, thing |-> <<>>,
     property |-> <<>>, has_property |-> FALSE]

\* TOPIC_MATCHER.match(topic) (src/main.py:17-19) on the topic and its
\* segments: dt, app, context (one or more characters, '/' allowed), thing,
\* and an optional property, which is None when the topic ends with '/'.
TopicMatch(topic, segs) ==
    LET n == Len(segs)
        from == 3 + Len(segs[2]) + 2
        to == Len(topic) - Len(segs[n]) - 1 - Len(segs[n - 1]) - 1
    IN  IF /\ n >= 5
           /\ segs[1] = <<"d", "t">>
           /\ segs[2] # <<>> /\ IsWord(segs[2])
           /\ from <= to
           /\ \A k \in 3..(n - 2) : IsWord(segs[k])
           /\ segs[n - 1] # <<>> /\ IsWord(segs[n - 1])
           /\ IsWord(segs[n])
        THEN [matched |-> TRUE, app |-> segs[2],
              context |-> SubSeq(topic, from, to), thing |-> segs[n - 1],
              property |-> segs[n], has_property |-> segs[n] # <<>>]
        ELSE NoMatch

TOPIC_MATCHER(topic) == TopicMatch(topic, Split(topic, "/"))

\* str.replace(" ", "_")
ReplaceSpaces(cs) ==
    [i \in 1..Len(cs) |-> IF cs[i] = " " THEN "_" ELSE cs[i]]

\* generate_tags (src/main.py:649-675); sc holds the scalar fields of the
\* resolved override, none of them None.
generate_tags(keys, sc, topic_meta) ==
    IF ~topic_meta.matched
    THEN [key \in keys \cap DOMAIN sc |-> TagTok(sc[key])]
    ELSE [key \in keys |->
             IF key \in DOMAIN sc THEN TagTok(sc[key])
             ELSE TagStr(topic_meta[key])]

ContextTagNames == <<"context_0", "context_1", "context_2">>

\* context.split("/") of a context given by the override
SplitScalar(v) ==
    CASE v = "k/l" -> <<"k", "l">>
      [] OTHER -> <<v>>

\* The parts of a context: a tag value split at '/'.
ContextParts(context) ==
    IF context.tok # ""
    THEN [i \in 1..Len(SplitScalar(context.tok)) |->
             TagTok(SplitScalar(context.tok)[i])]
    ELSE [i \in 1..Len(Split(context.cs, "/")) |->
             TagStr(Split(context.cs, "/")[i])]

\* The tags context_0, context_1, ... of the parts (src/main.py:748-751)
ContextTagsOf(parts) ==
    [name \in {ContextTagNames[i] : i \in 1..Len(parts)} |->
        parts[CHOOSE i \in 1..Len(parts) : ContextTagNames[i] = name]]

\* extract_context_tags (src/main.py:731-751); `context` is a tag value, or
\* TagNone.
extract_context_tags(context) ==
    IF context = TagNone THEN EmptyDict
    ELSE ContextTagsOf(ContextParts(context))

\* The extra tags of the override that are not None (src/main.py:716-723).
ExtraTags(ov) ==
    IF ov.has_et
    THEN [k \in {x \in DOMAIN ov.et : ov.et[x] # NONE} |-> TagTok(ov.et[k])]
    ELSE EmptyDict

\* tags.update(extra_tags) (src/main.py:714-721): extra tags replace the
\* tags of the same name.  A later map wins, which is @@ with the later map
\* on the left.
UpdateExtraTags_keeps(tags, ov) == tags @@ ExtraTags(ov)
UpdateExtraTags(tags, ov) == ExtraTags(ov) @@ tags

\* The context the context tags are made of (src/main.py:708-710)
ContextOf(ov, topic_meta) ==
    IF "context" \in DOMAIN ov.sc THEN TagTok(ov.sc["context"])
    ELSE IF topic_meta.matched THEN TagStr(topic_meta.context)
    ELSE TagNone

\* s[-1]
LastOf(s) == s[Len(s)]

\* The property derived from the topic (src/main.py:692-701)
PropertyOf(vt, topic_meta) ==
    IF ~topic_meta.matched
    THEN ReplaceSpaces(LastOf(Split(vt.topic, "/")))
    ELSE IF vt.is_sub
    THEN ReplaceSpaces((IF topic_meta.has_property THEN topic_meta.property
                        ELSE <<"N", "o", "n", "e">>) \o <<"_">> \o vt.sub)
    ELSE ReplaceSpaces(topic_meta.property)

\* The tags of extract_tags before the extra tags (src/main.py:703-712)
StructuralTags(vt, ov, topic_meta) ==
    extract_context_tags(ContextOf(ov, topic_meta))
    @@ generate_tags({"app", "context", "thing"}, ov.sc, topic_meta)
    @@ (PROPERTY_KEY :>
           IF PROPERTY_KEY \in DOMAIN ov.sc
           THEN TagTok(ov.sc[PROPERTY_KEY])
           ELSE TagStr(PropertyOf(vt, topic_meta)))
    @@ (TOPIC_KEY :>
           TagStr(IF vt.is_sub THEN SubKey(vt.topic, vt.sub) ELSE vt.topic))

\* metric_prefix of the override is carried in the tags (src/main.py:723-724)
WithMetricPrefix(tags, ov) ==
    IF METRIC_PREFIX_KEY \in DOMAIN ov.sc
    THEN (METRIC_PREFIX_KEY :> TagTok(ov.sc[METRIC_PREFIX_KEY])) @@ tags
    ELSE tags

ExtractTagsOf(vt, ov, topic_meta) ==
    IF topic_meta.matched /\ ~vt.is_sub /\ ~topic_meta.has_property
    THEN Raise("AttributeError")
    ELSE Ok(WithMetricPrefix(
                UpdateExtraTags(StructuralTags(vt, ov, topic_meta), ov), ov))

\* extract_tags (src/main.py:678-728).  vt is the fragment's topic: a plain
\* topic or a (topic, sub-value) tuple.
extract_tags(vt, ov) == ExtractTagsOf(vt, ov, TOPIC_MATCHER(vt.topic))

\* tags_exclude of writer and process_items (src/main.py:115-116, 312-313)
tags_exclude == {METRIC_PREFIX_KEY}

\* isinstance(v, (str, int, float))
IsTagScalar(j) == j.kind = "scalar" /\ (IsStr(j.tok) \/ IsNumber(j.tok))

\* normalize_timestamp (src/main.py:478-506) of a str, int or float
normalize_timestamp(timestamp) ==
    IF IsNumber(timestamp) THEN TagTok(timestamp)
    ELSE IF PyInt(timestamp).exc = "none" THEN TagTok(PyInt(timestamp).v)
    ELSE IF PyFloat(timestamp).exc = "none" THEN TagTok(PyFloat(timestamp).v)
    ELSE TagNone

\* The payload tags of a dict fragment (src/main.py:528-538).
PayloadTags(vp) ==
    LET rest == DictWithout(vp, VALUE_KEY)
        keys == {rest.items[i].k : i \in
                    {n \in 1..Len(rest.items) :
                        /\ IsTagScalar(rest.items[n].v)
                        /\ rest.items[n].k \notin tags_exclude}}
    IN  [k \in keys |->
            IF k = TIMESTAMP_KEY THEN normalize_timestamp(DictAt(rest, k).tok)
            ELSE TagTok(PyStr(DictAt(rest, k).tok))]

\* payload_tags.update(tags) (src/main.py:470): the tags of extract_tags
\* replace the payload tags of the same name.
MergeTags(payload_tags, tags) == tags @@ payload_tags

\* The timestamp defaults to the arrival time (src/main.py:472-473).
Stamped(merged) ==
    IF TIMESTAMP_KEY \in DOMAIN merged /\ merged[TIMESTAMP_KEY] # TagNone
    THEN merged
    ELSE (TIMESTAMP_KEY :> ArrivalTime) @@ merged

\* The payload tags are empty after the ValueError handler and for a
\* fragment that is no dict (src/main.py:456-468, 524-547).
PayloadTagsOf(vp, value) ==
    IF IsDict(vp) /\ value.v # NONE THEN PayloadTags(vp) ELSE EmptyDict

TagsAndValueOf(vp, value, tags) ==
    IF value.exc # "none"
    THEN [exc |-> value.exc, v |-> NONE, tags |-> EmptyDict]
    ELSE IF tags.exc # "none"
    THEN [exc |-> tags.exc, v |-> NONE, tags |-> EmptyDict]
    ELSE [exc |-> "none", v |-> value.v,
          tags |-> Stamped(MergeTags(PayloadTagsOf(vp, value), tags.v))]

\* extract_tags_and_value (src/main.py:445-475) with
\* extract_payload_tags_and_value (src/main.py:509-547): the outcome holds
\* the value (NONE after the ValueError handler) and the tags.
extract_tags_and_value(vt, vp, ov) ==
    TagsAndValueOf(vp, extract_value(vp, ov.vr), extract_tags(vt, ov))

\* dict.pop(key) of a tag dict
TagsWithout(tags, key) == [k \in DOMAIN tags \ {key} |-> tags[k]]

\* The metric name f"{local_metric_prefix}{tags[PROPERTY_KEY]}{suffix}"
\* (src/main.py:411-438); tags still holds metric_prefix when it has one.
MetricName(tags, suffix) ==
    [prefix |-> IF METRIC_PREFIX_KEY \in DOMAIN tags
                THEN tags[METRIC_PREFIX_KEY]
                ELSE TagTok(DEFAULT_METRIC_PREFIX),
     property |-> tags[PROPERTY_KEY],
     suffix |-> suffix]

\* ------------------------------------------------------------------------
\* Inputs of the override resolver
\* ------------------------------------------------------------------------
P_ab == <<"a", "/", "b">>
P_aPlus == <<"a", "/", "+">>
P_abHash == <<"a", "/", "b", "/", "#">>
P_abx == <<"a", "/", "b", ":", "x">>
S_x == <<"x">>

\* Table keys, in the order a table lists them: neither ascending nor
\* descending in specificity (60, 125, 48, 150).
Patterns == <<P_ab, P_abHash, P_aPlus, P_abx>>

Topics == {P_ab}

SubValues == {S_x}

\* Table values.
V_null == NullSpec
V_one ==
    OvSpec("app" :> "app1", Map("t" :> "v1"), Map("s:foo" :> "i:42"))
V_two ==
    OvSpec(("app" :> "app2") @@ ("thing" :> "th2"),
           Map(("t" :> "v2") @@ ("u" :> "v2")), Absent)
V_clear ==
    OvSpec("app" :> NONE, Map("t" :> NONE), Null)
V_reset ==
    OvSpec(EmptyDict, Null, Map("s:foo" :> NONE))

SpecValues == {V_null, V_one, V_two, V_clear, V_reset}

\* Largest number of entries of a table.
MaxTable == 3

RECURSIVE SeqOfSet(_)
SeqOfSet(S) ==
    IF S = {} THEN <<>>
    ELSE LET m == CHOOSE x \in S : \A y \in S : x <= y
         IN  <<m>> \o SeqOfSet(S \ {m})

\* The table with the keys Patterns[i], i in K, in that order, and values f.
TableOf(K, f) ==
    LET idx == SeqOfSet(K)
    IN  [i \in 1..Len(idx) |-> [key |-> Patterns[idx[i]], val |-> f[idx[i]]]]

\* Every table with at most MaxTable of the keys.
Tables ==
    UNION { { TableOf(K, f) : f \in [K -> SpecValues] }
            : K \in { X \in SUBSET (1..Len(Patterns)) :
                          Cardinality(X) <= MaxTable } }

ResolverKeys ==
    { TopicKey(t) : t \in Topics }
        \cup { TupleKey(t, s) : t \in Topics, s \in SubValues }

\* ------------------------------------------------------------------------
\* State
\* ------------------------------------------------------------------------
VARIABLES
    loaded,      \* the override table as load_yaml_file returned it
    override,    \* the override table object the resolver works on
    cache,       \* the lru_cache of get_topic_override_config._get_override
    last,        \* the last direct resolver call: arguments and return value
    pi,          \* the activation of process_items (see PiIdle)
    sent,        \* the calls tsdb.send has received, in order
    queue,              \* the asyncio.Queue shared by subscriber and writer
    items_to_process,   \* writer: the batch being accumulated
    time_limit,         \* writer: the deadline of the current window
    writer_pc,          \* writer: where the coroutine stands (see WriterOff)
    now,                \* asyncio.get_event_loop().time(), in clock units
    max_time,           \* writer parameter, in clock units
    max_send_messages,  \* writer parameter
    produced,           \* number of messages the subscriber has enqueued
    handed,             \* the batches process_items was called with (ids)
    subscriber_pc,      \* subscriber: "off", "run", "failed", "cancelled"
    main_pc             \* main: "off", "gather", "returned", "raised"

pipelineVars ==
    <<queue, items_to_process, time_limit, writer_pc, now, max_time,
      max_send_messages, produced, handed, subscriber_pc, main_pc>>

vars == <<loaded, override, cache, last, pi, sent, queue, items_to_process,
          time_limit, writer_pc, now, max_time, max_send_messages, produced,
          handed, subscriber_pc, main_pc>>

NoCall ==
    [called |-> FALSE, key |-> TopicKey(<<>>), disable_cache |-> FALSE,
     res |-> EmptyResult]

\* process_items is not running.  pc is "idle", "message" (at the head of
\* the loop over items, src/main.py:318), "fragment" (inside the loop over
\* values, src/main.py:395), "returned" or "raised".
PiIdle ==
    [pc |-> "idle", items |-> <<>>, i |-> 0, values |-> <<>>, frag |-> 0,
     topic_override |-> EmptyResult, disable_cache |-> FALSE,
     exc |-> "none"]

\* Subscriber and writer are not started.  writer_pc is "off", "call" (about
\* to evaluate asyncio.wait_for at src/main.py:125), "suspended" (inside
\* wait_for with a positive timeout), "process" (inside process_items,
\* src/main.py:139) or "crashed" (an exception left the coroutine).
WriterOff ==
    /\ queue = <<>>
    /\ items_to_process = <<>>
    /\ time_limit = 0
    /\ writer_pc = "off"
    /\ now = 0
    /\ max_time = 0
    /\ max_send_messages = 1
    /\ produced = 0
    /\ handed = <<>>
    /\ subscriber_pc = "off"
    /\ main_pc = "off"

\* Construction: the table is loaded (src/main.py:946-949), nothing is
\* cached.
InitResolver ==
    /\ loaded \in Tables
    /\ override = loaded
    /\ cache = <<>>
    /\ last = NoCall
    /\ pi = PiIdle
    /\ sent = <<>>
    /\ WriterOff

\* One call get_topic_override_config(key, override, disable_cache).
Resolve(key, disable_cache) ==
    LET r == get_topic_override_config(override, cache, key, disable_cache)
    IN  /\ override' = r.tbl
        /\ cache' = r.cache
        /\ last' = [called |-> TRUE, key |-> key,
                    disable_cache |-> disable_cache, res |-> r.res]
        /\ UNCHANGED <<loaded, pi, sent>>
        /\ UNCHANGED pipelineVars

ResolveBypass == \E key \in ResolverKeys : Resolve(key, TRUE)

ResolveCached == \E key \in ResolverKeys : Resolve(key, FALSE)

NextResolver == ResolveBypass \/ ResolveCached

SpecResolver == InitResolver /\ [][NextResolver]_vars

\* ------------------------------------------------------------------------
\* process_items (src/main.py:292-442)
\* ------------------------------------------------------------------------
Message(id, topic, payload) == [id |-> id, topic |-> topic, payload |-> payload]

\* The call: items is the batch (src/main.py:318).
ProcessItemsEnter(items, disable_cache) ==
    [PiIdle EXCEPT !.pc = "message", !.items = items, !.i = 1,
                   !.disable_cache = disable_cache]

PiRaised(p, e) == [p EXCEPT !.pc = "raised", !.exc = e, !.values = <<>>]

\* The head of the loop over items: resolve the topic's override and build
\* `values` (src/main.py:318-393); when the items are exhausted the function
\* returns.
ProcessMessage ==
    /\ pi.pc = "message"
    /\ IF pi.i > Len(pi.items)
       THEN /\ pi' = [pi EXCEPT !.pc = "returned"]
            /\ UNCHANGED <<override, cache>>
       ELSE LET message == pi.items[pi.i]
                r == get_topic_override_config(
                         override, cache, TopicKey(message.topic),
                         pi.disable_cache)
                values == Decompose(message.topic, message.payload, r.res)
            IN  /\ override' = r.tbl
                /\ cache' = r.cache
                /\ pi' = IF values.exc # "none"
                         THEN PiRaised(pi, values.exc)
                         ELSE IF values.v = <<>>
                         THEN [pi EXCEPT !.i = pi.i + 1]
                         ELSE [pi EXCEPT !.pc = "fragment",
                                         !.values = values.v,
                                         !.frag = 1,
                                         !.topic_override = r.res]
    /\ UNCHANGED <<loaded, last, sent>>
    /\ UNCHANGED pipelineVars

Reading(message, frag, vt, kind, name, value, tags, ok) ==
    [msg |-> message.id, frag |-> frag, vt |-> vt, kind |-> kind,
     name |-> name, value |-> value, tags |-> tags, ok |-> ok]

\* After one fragment: the next fragment, or the next message.
PiAdvance(p) ==
    IF Len(p.values) > 1
    THEN [p EXCEPT !.values = Tail(p.values), !.frag = p.frag + 1]
    ELSE [p EXCEPT !.pc = "message", !.i = p.i + 1, !.values = <<>>,
                   !.frag = 0]

\* One pass of the loop over values (src/main.py:395-442).  send_ok is
\* whether tsdb.send returns (TRUE) or raises (FALSE).  A call
\* tsdb.send(..., **tags, val=...) with a tag named val is a TypeError
\* raised at the call, before the sink is entered.
FragmentStep(send_ok, message, f, e, tags, fallback) ==
    IF e.exc # "none"
    THEN \* extract_tags_and_value raises (src/main.py:396)
         /\ pi' = PiRaised(pi, e.exc)
         /\ sent' = sent
         /\ send_ok
    ELSE IF e.v = NONE
    THEN \* src/main.py:435-442: send outside the try block
         IF fallback.exc # "none"
         THEN /\ pi' = PiRaised(pi, fallback.exc)
              /\ sent' = sent
              /\ send_ok
         ELSE IF VAL_KEY \in DOMAIN tags
         THEN /\ pi' = PiRaised(pi, "TypeError")
              /\ sent' = sent
              /\ send_ok
         ELSE /\ sent' = Append(sent,
                     Reading(message, pi.frag, f.vt, "info",
                             MetricName(e.tags, STRING_LABEL_SUFFIX),
                             "i:1",
                             (VAL_KEY :> TagTok(fallback.v)) @@ tags,
                             send_ok))
              /\ pi' = IF send_ok THEN PiAdvance(pi)
                       ELSE PiRaised(pi, "SinkError")
    ELSE \* src/main.py:413-434: send inside try / except Exception
         /\ pi' = PiAdvance(pi)
         /\ IF IsNumber(e.v)
            THEN sent' = Append(sent,
                     Reading(message, pi.frag, f.vt, "num",
                             MetricName(e.tags, ""), e.v, tags,
                             send_ok))
            ELSE IF VAL_KEY \in DOMAIN tags
            THEN sent' = sent /\ send_ok
            ELSE sent' = Append(sent,
                     Reading(message, pi.frag, f.vt, "info",
                             MetricName(e.tags, STRING_LABEL_SUFFIX),
                             "i:1",
                             (VAL_KEY :> TagTok(e.v)) @@ tags,
                             send_ok))

\* The tags without metric_prefix, then the send (src/main.py:411-442)
FragmentSend(send_ok, message, f, e) ==
    FragmentStep(send_ok, message, f, e,
                 TagsWithout(e.tags, METRIC_PREFIX_KEY),
                 normalize_value(StrOfFragment(f.vp), pi.topic_override.vr))

\* The override of the fragment (src/main.py:397-405): a sub-value's own
\* override, or the topic's.
FragmentOverride(f) ==
    IF f.vt.is_sub
    THEN get_topic_override_config(override, cache, f.vt, pi.disable_cache)
    ELSE [res |-> pi.topic_override, tbl |-> override, cache |-> cache]

FragmentResolved(send_ok, message, f, r) ==
    /\ override' = r.tbl
    /\ cache' = r.cache
    /\ FragmentSend(send_ok, message, f,
                    extract_tags_and_value(f.vt, f.vp, r.res))

ProcessFragment(send_ok) ==
    /\ pi.pc = "fragment"
    /\ FragmentResolved(send_ok, pi.items[pi.i], Head(pi.values),
                        FragmentOverride(Head(pi.values)))
    /\ UNCHANGED <<loaded, last>>
    /\ UNCHANGED pipelineVars

SendReturns == ProcessFragment(TRUE)

SendRaises == ProcessFragment(FALSE)

\* ------------------------------------------------------------------------
\* Inputs of process_items
\* ------------------------------------------------------------------------
Text(tok) == [json |-> "no", j |-> Sc(tok)]
BadJson(tok) == [json |-> "invalid", j |-> Sc(tok)]
Json(j) == [json |-> "valid", j |-> j]

\* 25
PL_num == Text("s:25")
\* foo
PL_text == Text("s:foo")
\* nan
PL_nan == Text("s:nan")
\* inf
PL_inf == Text("s:inf")
\* {"value":}
PL_bad == BadJson("s:{bad")
\* {"value": 25.5}
PL_value == Json(Obj(<<Item(VALUE_KEY, Sc("f:25.5"))>>))
\* {"value": NaN}
PL_value_nan == Json(Obj(<<Item(VALUE_KEY, Sc("f:nan"))>>))
\* {}
PL_empty == Json(Obj(<<>>))
\* {"values": {"x": {"value": "foo"}, "y": 25}}
PL_values_dict ==
    Json(Obj(<<Item(VALUES_KEY,
                    Obj(<<Item("x", Obj(<<Item(VALUE_KEY, Sc("s:foo"))>>)),
                          Item("y", Sc("i:25"))>>))>>))
\* [1, {"value": "foo"}]
PL_list ==
    Json(Arr(<<Item("", Sc("i:1")),
               Item("", Obj(<<Item(VALUE_KEY, Sc("s:foo"))>>))>>))
\* [{"x": 25, "y": "foo"}]
PL_list_of_dicts ==
    Json(Arr(<<Item("", Obj(<<Item("x", Sc("i:25")),
                              Item("y", Sc("s:foo"))>>))>>))

Payloads ==
    {PL_num, PL_text, PL_nan, PL_inf, PL_bad, PL_value, PL_value_nan,
     PL_empty, PL_values_dict, PL_list, PL_list_of_dicts}

V_multi == OvSpec(JSON_MULTI_VALUE_KEY :> PY_TRUE, Absent, Absent)

\* Override tables process_items is run with: none, a value_replacement for
\* the topic, json_multi_value for the topic, an entry for a sub-value.
ProcessTables ==
    { <<>>,
      <<[key |-> P_aPlus, val |-> V_one]>>,
      <<[key |-> P_aPlus, val |-> V_multi]>>,
      <<[key |-> P_abx, val |-> V_one]>> }

\* Largest number of messages of a batch handed to process_items.
MaxBatch == 2

Batches ==
    UNION { { [i \in 1..n |-> Message(i, P_ab, f[i])] :
                f \in [1..n -> Payloads] } : n \in 1..MaxBatch }

InitProcess ==
    /\ loaded \in ProcessTables
    /\ override = loaded
    /\ cache = <<>>
    /\ last = NoCall
    /\ pi = PiIdle
    /\ sent = <<>>
    /\ WriterOff

\* process_items(items, tsdb, override, ..., disable_cache) is called.
ProcessItemsCall ==
    /\ pi.pc = "idle"
    /\ \E items \in Batches, disable_cache \in BOOLEAN :
          pi' = ProcessItemsEnter(items, disable_cache)
    /\ UNCHANGED <<loaded, override, cache, last, sent>>
    /\ UNCHANGED pipelineVars

NextProcess ==
    ProcessItemsCall \/ ProcessMessage \/ SendReturns \/ SendRaises

SpecProcess == InitProcess /\ [][NextProcess]_vars

\* ------------------------------------------------------------------------
\* Inputs of process_items for the tags and the value of a Reading
\* ------------------------------------------------------------------------
P_hash == <<"#">>
\* dt/a/c/t/p
T_plain == <<"d", "t", "/", "a", "/", "c", "/", "t", "/", "p">>
\* dt/a b/c d/t u/p q
T_spaces ==
    <<"d", "t", "/", "a", " ", "b", "/", "c", " ", "d", "/", "t", " ", "u",
      "/", "p", " ", "q">>
\* dt/a/c/d/t/p
T_deep == <<"d", "t", "/", "a", "/", "c", "/", "d", "/", "t", "/", "p">>
\* dt/a/c/t/
T_noprop == <<"d", "t", "/", "a", "/", "c", "/", "t", "/">>

TagTopics == {P_ab, T_plain, T_spaces, T_deep, T_noprop}

\* toolong
PL_long == Text("s:toolong")
\* {"value": 25, "app": "bar", "topic": "bar", "t": "bar", "timestamp": 42}
PT_tags ==
    Json(Obj(<<Item(VALUE_KEY, Sc("i:25")), Item("app", Sc("s:bar")),
               Item(TOPIC_KEY, Sc("s:bar")), Item("t", Sc("s:bar")),
               Item(TIMESTAMP_KEY, Sc("i:42"))>>))
\* {"value": "foo", "timestamp": "bar", "context_0": "bar"}
PT_stamp_text ==
    Json(Obj(<<Item(VALUE_KEY, Sc("s:foo")),
               Item(TIMESTAMP_KEY, Sc("s:bar")),
               Item("context_0", Sc("s:bar"))>>))
\* {"value": "foo", "val": "bar"}
PT_val ==
    Json(Obj(<<Item(VALUE_KEY, Sc("s:foo")), Item(VAL_KEY, Sc("s:bar"))>>))
\* {"value": NaN, "timestamp": 42}
PT_nan_stamp ==
    Json(Obj(<<Item(VALUE_KEY, Sc("f:nan")),
               Item(TIMESTAMP_KEY, Sc("i:42"))>>))
\* {"value": "25"}
PT_numstr == Json(Obj(<<Item(VALUE_KEY, Sc("s:25"))>>))
\* {"value": "bar"}
PT_bar == Json(Obj(<<Item(VALUE_KEY, Sc("s:bar"))>>))

\* {"values": {"x": {"value": 25, "k": "foo"}, "y": 42},
\*  "k": "bar", "u": "bar", "value": 1}
PT_values_tags ==
    Json(Obj(<<Item(VALUES_KEY,
                    Obj(<<Item("x", Obj(<<Item(VALUE_KEY, Sc("i:25")),
                                          Item("k", Sc("s:foo"))>>)),
                          Item("y", Sc("i:42"))>>)),
               Item("k", Sc("s:bar")), Item("u", Sc("s:bar")),
               Item(VALUE_KEY, Sc("i:1"))>>))
\* {"values": {}}
PT_values_empty == Json(Obj(<<Item(VALUES_KEY, Obj(<<>>))>>))

TagPayloads ==
    {PL_num, PL_text, PL_long, PL_inf, PL_value, PL_values_dict, PT_tags,
     PT_stamp_text, PT_val, PT_nan_stamp, PT_numstr, PT_bar, PT_values_tags,
     PT_values_empty}

\* context, property and metric_prefix given by the override
V_ctx ==
    OvSpec(("context" :> "k/l") @@ (PROPERTY_KEY :> "pr")
               @@ (METRIC_PREFIX_KEY :> "mp"),
           Absent, Absent)
\* extra tags named like a structural tag and like a payload tag
V_et == OvSpec(EmptyDict, Map(("app" :> "v1") @@ ("t" :> "v1")), Absent)
\* extra tags named topic and timestamp
V_et_reserved ==
    OvSpec(EmptyDict, Map((TOPIC_KEY :> "v1") @@ (TIMESTAMP_KEY :> "v1")),
           Absent)
\* replacements: text by a numeric text, text by a long text, a number by a
\* text, a number text by a number
V_repl ==
    OvSpec(EmptyDict, Absent,
           Map(("s:foo" :> "s:42") @@ ("s:bar" :> "s:toolong")
                   @@ ("n:25" :> "s:bar") @@ ("s:25" :> "f:25.5")))

\* replacements that are keys themselves: {"foo": "bar", "bar": "42", 42: 1}
V_chain ==
    OvSpec(EmptyDict, Absent,
           Map(("s:foo" :> "s:bar") @@ ("s:bar" :> "s:42")
                   @@ ("n:42" :> "i:1")))

TagTables ==
    { <<>>,
      <<[key |-> P_hash, val |-> V_one]>>,
      <<[key |-> P_hash, val |-> V_ctx]>>,
      <<[key |-> P_hash, val |-> V_et]>>,
      <<[key |-> P_hash, val |-> V_et_reserved]>>,
      <<[key |-> P_hash, val |-> V_repl]>>,
      <<[key |-> P_hash, val |-> V_chain]>> }

InitTags ==
    /\ loaded \in TagTables
    /\ override = loaded
    /\ cache = <<>>
    /\ last = NoCall
    /\ pi = PiIdle
    /\ sent = <<>>
    /\ WriterOff

\* process_items is called with one message.
ProcessItemsCallTags ==
    /\ pi.pc = "idle"
    /\ \E topic \in TagTopics, payload \in TagPayloads :
          pi' = ProcessItemsEnter(<<Message(1, topic, payload)>>, TRUE)
    /\ UNCHANGED <<loaded, override, cache, last, sent>>
    /\ UNCHANGED pipelineVars

NextTags ==
    ProcessItemsCallTags \/ ProcessMessage \/ SendReturns \/ SendRaises

SpecTags == InitTags /\ [][NextTags]_vars

\* ------------------------------------------------------------------------
\* subscriber and writer (src/main.py:38-149)
\* ------------------------------------------------------------------------
\* The event loop's clock counts in units of 1/TicksPerSecond s.
TicksPerSecond == 20

\* The 0.1 s of the deadline test (src/main.py:148), in clock units.
Slack == TicksPerSecond \div 10

\* --max-time is an int of seconds (src/main.py:771-777): 0 s and 1 s.
MaxTimes == {0, TicksPerSecond}

\* Largest --max-send-messages, messages the subscriber receives, and the
\* latest instant of the clock.
MaxSend == 2
MaxMessages == 2
MaxNow == 42

Ids(items) == [k \in 1..Len(items) |-> items[k].id]

\* asyncio.Queue is first in, first out and has no capacity bound.
QueuePut(q, item) == Append(q, item)

QueueGet_lifo(q) ==
    [item |-> q[Len(q)], rest |-> SubSeq(q, 1, Len(q) - 1)]
QueueGet(q) == [item |-> Head(q), rest |-> Tail(q)]

AppendItem_replaces(items, item) == <<item>>
AppendItem(items, item) == Append(items, item)

\* src/main.py:148-149
DeadlineUpdate_always == now + max_time
DeadlineUpdate ==
    IF time_limit - now < Slack THEN now + max_time ELSE time_limit

\* The inner loop was left with `items` (src/main.py:137-149): a non-empty
\* batch goes to process_items, which runs before the deadline is looked at;
\* an empty one leaves only the deadline update.
CloseBatch_also_empty(items) ==
    /\ pi' = ProcessItemsEnter(items, FALSE)
    /\ handed' = Append(handed, Ids(items))
    /\ items_to_process' = items
    /\ writer_pc' = "process"
    /\ time_limit' = time_limit
CloseBatch(items) ==
    IF Len(items) > 0
    THEN /\ pi' = ProcessItemsEnter(items, FALSE)
         /\ handed' = Append(handed, Ids(items))
         /\ items_to_process' = items
         /\ writer_pc' = "process"
         /\ time_limit' = time_limit
    ELSE /\ pi' = pi
         /\ handed' = handed
         /\ items_to_process' = <<>>
         /\ writer_pc' = "call"
         /\ time_limit' = DeadlineUpdate

\* queue.get() returned an item (src/main.py:125-133).
Dequeue ==
    LET g == QueueGet(queue)
        items == AppendItem(items_to_process, g.item)
    IN  /\ queue' = g.rest
        /\ IF Len(items) >= max_send_messages
           THEN CloseBatch(items)
           ELSE /\ items_to_process' = items
                /\ writer_pc' = "call"
                /\ UNCHANGED <<pi, handed, time_limit>>

PipelinePayloads == {PL_num, PL_list, PL_nan}

PipelineTables == { <<>>, <<[key |-> P_aPlus, val |-> V_one]>> }

\* main() (src/main.py:941-996): the table is loaded, the queue created and
\* both coroutines started; the writer has taken its first deadline
\* (src/main.py:118) and stands before its first wait_for.
Init ==
    /\ loaded \in PipelineTables
    /\ override = loaded
    /\ cache = <<>>
    /\ last = NoCall
    /\ pi = PiIdle
    /\ sent = <<>>
    /\ queue = <<>>
    /\ items_to_process = <<>>
    /\ now = 0
    /\ max_time \in MaxTimes
    /\ max_send_messages \in 1..MaxSend
    /\ time_limit = now + max_time
    /\ writer_pc = "call"
    /\ produced = 0
    /\ handed = <<>>
    /\ subscriber_pc = "run"
    /\ main_pc = "gather"

\* subscriber: `await queue.put((message, time.time()))` (src/main.py:88-90).
\* It runs only while the writer is suspended at its await: process_items is
\* a plain function call.
SubscriberPut ==
    /\ subscriber_pc = "run"
    /\ writer_pc \in {"call", "suspended"}
    /\ produced < MaxMessages
    /\ \E payload \in PipelinePayloads :
          queue' = QueuePut(queue, Message(produced + 1, P_ab, payload))
    /\ produced' = produced + 1
    /\ UNCHANGED <<loaded, override, cache, last, pi, sent, items_to_process,
                   time_limit, writer_pc, now, max_time, max_send_messages,
                   handed>>
    /\ UNCHANGED <<subscriber_pc, main_pc>>

\* Time passes.  Only the position of the clock relative to the deadline
\* matters to the writer: at the edge of the slack, inside it, at the
\* deadline, past it.
Tick ==
    /\ writer_pc \in {"call", "suspended", "process"}
    /\ \E t \in {time_limit - Slack, time_limit - 1, time_limit,
                 time_limit + 1} :
          /\ t > now
          /\ t <= MaxNow
          /\ now' = t
    /\ UNCHANGED <<loaded, override, cache, last, pi, sent, queue,
                   items_to_process, time_limit, writer_pc, max_time,
                   max_send_messages, produced, handed>>
    /\ UNCHANGED <<subscriber_pc, main_pc>>

\* writer evaluates asyncio.wait_for(queue.get(), timeout=max(0, ...))
\* (src/main.py:125-128).  With a timeout that is not positive wait_for
\* raises TimeoutError without running queue.get(); otherwise get returns
\* the head of a non-empty queue or suspends.
WriterWaitFor ==
    /\ writer_pc = "call"
    /\ LET d == time_limit - now
           timeout == IF d > 0 THEN d ELSE 0
       IN  IF timeout <= 0
           THEN queue' = queue /\ CloseBatch(items_to_process)
           ELSE IF queue # <<>>
           THEN Dequeue
           ELSE /\ writer_pc' = "suspended"
                /\ UNCHANGED <<pi, queue, items_to_process, time_limit,
                               handed>>
    /\ UNCHANGED <<loaded, override, cache, last, sent, now, max_time,
                   max_send_messages, produced>>
    /\ UNCHANGED <<subscriber_pc, main_pc>>

\* The suspended queue.get() is woken by a put.
WriterGets ==
    /\ writer_pc = "suspended"
    /\ queue # <<>>
    /\ Dequeue
    /\ UNCHANGED <<loaded, override, cache, last, sent, now, max_time,
                   max_send_messages, produced>>
    /\ UNCHANGED <<subscriber_pc, main_pc>>

\* The timeout of the suspended wait_for expires (src/main.py:134-135).
WriterTimeout ==
    /\ writer_pc = "suspended"
    /\ now >= time_limit
    /\ queue' = queue
    /\ CloseBatch(items_to_process)
    /\ UNCHANGED <<loaded, override, cache, last, sent, now, max_time,
                   max_send_messages, produced>>
    /\ UNCHANGED <<subscriber_pc, main_pc>>

\* process_items returned (src/main.py:146-149, then 121).
WriterResume ==
    /\ writer_pc = "process"
    /\ pi.pc = "returned"
    /\ pi' = PiIdle
    /\ items_to_process' = <<>>
    /\ time_limit' = DeadlineUpdate
    /\ writer_pc' = "call"
    /\ UNCHANGED <<loaded, override, cache, last, sent, queue, now, max_time,
                   max_send_messages, produced, handed>>
    /\ UNCHANGED <<subscriber_pc, main_pc>>

\* process_items raised: nothing in writer catches it (src/main.py:139).
WriterCrash ==
    /\ writer_pc = "process"
    /\ pi.pc = "raised"
    /\ writer_pc' = "crashed"
    /\ UNCHANGED <<loaded, override, cache, last, pi, sent, queue,
                   items_to_process, time_limit, now, max_time,
                   max_send_messages, produced, handed>>
    /\ UNCHANGED <<subscriber_pc, main_pc>>

Next ==
    \/ SubscriberPut
    \/ Tick
    \/ WriterWaitFor
    \/ WriterGets
    \/ WriterTimeout
    \/ ProcessMessage
    \/ SendReturns
    \/ SendRaises
    \/ WriterResume
    \/ WriterCrash

Spec == Init /\ [][Next]_vars

\* ------------------------------------------------------------------------
\* Transport failure and the end of main (src/main.py:969-999)
\* ------------------------------------------------------------------------
\* The transport raises MqttError inside subscriber (src/main.py:83-90);
\* nothing in subscriber catches it, so the task ends with that exception.
\* The subscriber runs only while the writer stands at an await.
SubscriberFails ==
    /\ main_pc = "gather"
    /\ subscriber_pc = "run"
    /\ writer_pc \in {"call", "suspended"}
    /\ subscriber_pc' = "failed"
    /\ UNCHANGED <<loaded, override, cache, last, pi, sent, queue,
                   items_to_process, time_limit, writer_pc, now, max_time,
                   max_send_messages, produced, handed, main_pc>>

\* asyncio.gather hands the subscriber's MqttError to main, which logs it
\* and returns (src/main.py:994-995); asyncio.run then cancels the task that
\* is still pending (src/main.py:999).  main runs only while the writer
\* stands at an await, where the cancellation reaches it.
MainCatches ==
    /\ main_pc = "gather"
    /\ subscriber_pc = "failed"
    /\ writer_pc \in {"call", "suspended", "crashed"}
    /\ main_pc' = "returned"
    /\ writer_pc' = IF writer_pc = "crashed" THEN "crashed" ELSE "cancelled"
    /\ UNCHANGED <<loaded, override, cache, last, pi, sent, queue,
                   items_to_process, time_limit, now, max_time,
                   max_send_messages, produced, handed, subscriber_pc>>

\* The writer ended with an exception that is no MqttError: gather hands it
\* to main, which does not catch it (src/main.py:969-995); asyncio.run
\* cancels the subscriber and re-raises.
MainRaises ==
    /\ main_pc = "gather"
    /\ subscriber_pc = "run"
    /\ writer_pc = "crashed"
    /\ main_pc' = "raised"
    /\ subscriber_pc' = "cancelled"
    /\ UNCHANGED <<loaded, override, cache, last, pi, sent, queue,
                   items_to_process, time_limit, writer_pc, now, max_time,
                   max_send_messages, produced, handed>>

NextShutdown ==
    \/ Next
    \/ SubscriberFails
    \/ MainCatches
    \/ MainRaises

SpecShutdown == Init /\ [][NextShutdown]_vars

\* ------------------------------------------------------------------------
\* Properties of process_items (checked under SpecProcess)
\* ------------------------------------------------------------------------
\* C1 (as claimed): process_items raises only when the sink's send raised.
C1_RaisesOnlyWhenSendFails ==
    pi.pc = "raised" => pi.exc = "SinkError"

\* C8 (as claimed): a send that raises never makes process_items raise.
C8_SendFailureNeverEscapes ==
    pi.pc = "raised" => pi.exc # "SinkError"

\* ------------------------------------------------------------------------
\* Properties of the override resolver (checked under SpecResolver)
\* ------------------------------------------------------------------------
LastBase == last.called /\ ~last.key.is_sub

LastSub == last.called /\ last.key.is_sub

\* The keys of tbl that match topic, other than the topic itself.
WildcardMatches(tbl, topic) ==
    { tbl[i].key : i \in { j \in 1..Len(tbl) :
          tbl[j].key # topic /\ topic_matches_sub(tbl[j].key, topic) } }

SetsScalar(v, f) == ~v.null /\ f \in DOMAIN v.sc

SetsExtraTag(v, k) == ~v.null /\ v.et.st = "map" /\ k \in DOMAIN v.et.m

\* The result holds every value of the literal pattern lit that some
\* matching wildcard pattern sets as well.
LiteralWins(tbl, topic, res) ==
    LET lit == TableGet(tbl, topic, NullSpec)
        wild == WildcardMatches(tbl, topic)
    IN  /\ \A f \in DOMAIN lit.sc :
              ( /\ lit.sc[f] # NONE
                /\ \E w \in wild : SetsScalar(TableGet(tbl, w, NullSpec), f) )
              => (f \in DOMAIN res.sc /\ res.sc[f] = lit.sc[f])
        /\ \A k \in DOMAIN lit.et.m :
              ( /\ lit.et.m[k] # NONE
                /\ \E w \in wild : SetsExtraTag(TableGet(tbl, w, NullSpec), k) )
              => (res.has_et /\ k \in DOMAIN res.et /\ res.et[k] = lit.et.m[k])

\* C2 (as claimed): resolving the same topic or (topic, sub-value) pair again
\* in the same cache mode returns the result of the call before.
C2_RepeatedResolutionIdentical ==
    [][ ( /\ last.called
          /\ last'.called
          /\ last'.key = last.key
          /\ last'.disable_cache = last.disable_cache )
        => last'.res = last.res ]_vars

\* C3 (as claimed): the override table is never modified: it always equals
\* the table that was loaded.
C3_TableNeverModified == override = loaded

\* C4 (as claimed): a base-topic resolution of a topic that is itself a
\* table key returns the literal pattern's value for every scalar field and
\* extra_tags key that a matching wildcard pattern sets as well.
C4_LiteralAlwaysWins ==
    ( /\ LastBase
      /\ HasKey(override, last.key.topic)
      /\ ~TableGet(override, last.key.topic, NullSpec).null )
    => LiteralWins(override, last.key.topic, last.res)

\* C4 (amended): the literal pattern's value wins over every matching
\* wildcard pattern provided no matching wildcard pattern has more
\* characters than the topic.
C4_LiteralWinsOverShorterWildcards ==
    ( /\ LastBase
      /\ HasKey(override, last.key.topic)
      /\ ~TableGet(override, last.key.topic, NullSpec).null
      /\ \A w \in WildcardMatches(override, last.key.topic) :
            Len(w) <= Len(last.key.topic) )
    => LiteralWins(override, last.key.topic, last.res)

\* C4 witness: the literal pattern and a shorter-or-equal wildcard pattern
\* set the same scalar field to different values and the literal's is
\* returned.
C4_Witness ==
    /\ LastBase
    /\ HasKey(override, last.key.topic)
    /\ \A w \in WildcardMatches(override, last.key.topic) :
          Len(w) <= Len(last.key.topic)
    /\ \E w \in WildcardMatches(override, last.key.topic) :
          LET lit == TableGet(override, last.key.topic, NullSpec)
              wv == TableGet(override, w, NullSpec)
          IN  /\ ~lit.null
              /\ SetsScalar(lit, "app")
              /\ SetsScalar(wv, "app")
              /\ lit.sc["app"] # NONE
              /\ wv.sc["app"] # NONE
              /\ wv.sc["app"] # lit.sc["app"]
              /\ "app" \in DOMAIN last.res.sc
              /\ last.res.sc["app"] = lit.sc["app"]


\* The matching patterns of topic, least specific first.
Ranked(tbl, topic) == sort_subs_by_specificity(topic, TableKeys(tbl))

NullRanks(tbl, ranked) ==
    { i \in 1..Len(ranked) : TableGet(tbl, ranked[i], NullSpec).null }

MaxOf(S) == CHOOSE x \in S : \A y \in S : y <= x

\* tbl without the entries whose key is in drop.
RECURSIVE WithoutKeys(_, _)
WithoutKeys(tbl, drop) ==
    IF tbl = <<>> THEN <<>>
    ELSE IF Head(tbl).key \in drop THEN WithoutKeys(Tail(tbl), drop)
    ELSE <<Head(tbl)>> \o WithoutKeys(Tail(tbl), drop)

\* C5: in a base-topic resolution a matching null pattern discards what the
\* less specific patterns contributed, and the more specific patterns are
\* applied to the emptied state: the result is the one obtained from the
\* table without the (most specific) null pattern and without every pattern
\* ranked below it.
C5_NullDiscardsLessSpecific ==
    LastBase =>
        LET ranked == Ranked(override, last.key.topic)
            nulls == NullRanks(override, ranked)
        IN  nulls # {} =>
                last.res = GetOverrideBase(
                    WithoutKeys(override,
                        { ranked[i] : i \in 1..MaxOf(nulls) }),
                    last.key.topic)

\* C5 witness: a null pattern ranked between a less specific pattern that
\* sets `thing` and a more specific pattern that sets `app`; the result has
\* `app` and no `thing`.
C5_Witness ==
    /\ LastBase
    /\ LET ranked == Ranked(override, last.key.topic)
       IN  /\ Len(ranked) = 3
           /\ TableGet(override, ranked[2], NullSpec).null
           /\ SetsScalar(TableGet(override, ranked[1], NullSpec), "thing")
           /\ SetsExtraTag(TableGet(override, ranked[1], NullSpec), "u")
           /\ SetsScalar(TableGet(override, ranked[3], NullSpec), "app")
           /\ "thing" \notin DOMAIN last.res.sc
           /\ "u" \notin DOMAIN last.res.et
           /\ "app" \in DOMAIN last.res.sc

\* res is the base-topic result of tbl for key.topic overlaid by the entry
\* `topic:subvalue` of tbl: the entry's scalar fields and sub-map keys win,
\* everything else is inherited, and a null entry gives the empty result.
SubValueOverlay(tbl, key, res) ==
    LET base == GetOverrideBase(tbl, key.topic)
        e == TableGet(tbl, SubKey(key.topic, key.sub),
                      OvSpec(EmptyDict, Absent, Absent))
    IN  IF e.null
        THEN res = EmptyResult
        ELSE /\ \A f \in DOMAIN e.sc :
                   e.sc[f] # NONE =>
                       (f \in DOMAIN res.sc /\ res.sc[f] = e.sc[f])
             /\ \A f \in DOMAIN base.sc \ DOMAIN e.sc :
                   f \in DOMAIN res.sc /\ res.sc[f] = base.sc[f]
             /\ \A k \in DOMAIN e.et.m :
                   e.et.m[k] # NONE =>
                       (k \in DOMAIN res.et /\ res.et[k] = e.et.m[k])
             /\ e.et.st # "null" =>
                   \A k \in DOMAIN base.et \ DOMAIN e.et.m :
                       k \in DOMAIN res.et /\ res.et[k] = base.et[k]
             /\ \A k \in DOMAIN e.vr.m :
                   e.vr.m[k] # NONE =>
                       (k \in DOMAIN res.vr /\ res.vr[k] = e.vr.m[k])
             /\ e.vr.st # "null" =>
                   \A k \in DOMAIN base.vr \ DOMAIN e.vr.m :
                       k \in DOMAIN res.vr /\ res.vr[k] = base.vr[k]

\* C6 (as claimed): the result of resolving (topic, sub-value) is the
\* base-topic result overlaid by the entry `topic:subvalue` of the table
\* that was loaded.
C6_SubValueOverlaysExactEntry ==
    LastSub => SubValueOverlay(loaded, last.key, last.res)

\* C7 (as claimed): a resolved override has no null-valued key in
\* extra_tags or value_replacement, and a sub-map is present only when it
\* has a key.
C7_NoNullKeysNoEmptySubMaps ==
    last.called =>
        /\ \A k \in DOMAIN last.res.et : last.res.et[k] # NONE
        /\ \A k \in DOMAIN last.res.vr : last.res.vr[k] # NONE
        /\ last.res.has_et => DOMAIN last.res.et # {}
        /\ last.res.has_vr => DOMAIN last.res.vr # {}

\* ------------------------------------------------------------------------
\* Properties of subscriber and writer (checked under Spec)
\* ------------------------------------------------------------------------
\* The messages the writer has dequeued and not yet passed to process_items.
Accumulating ==
    IF writer_pc \in {"call", "suspended"} THEN Ids(items_to_process)
    ELSE <<>>

\* C9: every message the subscriber enqueued is in exactly one place: in one
\* batch that was passed to process_items, in the batch being accumulated,
\* or still in the queue; so no message is passed twice and none leaves the
\* queue without reaching a batch.  The batch process_items runs on is the
\* batch the writer closed.
C9_EachMessageInExactlyOneBatch ==
    /\ FlattenSeq(handed) \o Accumulating \o Ids(queue)
           = [k \in 1..produced |-> k]
    /\ writer_pc = "process" =>
           /\ handed # <<>>
           /\ Ids(pi.items) = handed[Len(handed)]
           /\ pi.items = items_to_process

\* Both messages were received and passed on, in two batches or in one.
C9_Witness ==
    /\ produced = 2
    /\ queue = <<>>
    /\ writer_pc = "process"
    /\ FlattenSeq(handed) = <<1, 2>>

\* C10: the sink is called in arrival order: of two sends the earlier one
\* is for an earlier message, or for the same message and an earlier
\* fragment of its decomposition.
C10_SendsInArrivalOrder ==
    \A a, b \in 1..Len(sent) :
        a < b =>
            \/ sent[a].msg < sent[b].msg
            \/ sent[a].msg = sent[b].msg /\ sent[a].frag < sent[b].frag

\* Two messages of two batches were sent, the second one in two fragments.
C10_Witness ==
    /\ Len(handed) = 2
    /\ \E a, b, c \in 1..Len(sent) :
          /\ sent[a].msg = 1
          /\ sent[b].msg = 2 /\ sent[b].frag = 1
          /\ sent[c].msg = 2 /\ sent[c].frag = 2

\* ------------------------------------------------------------------------
\* Properties of the shutdown (checked under SpecShutdown)
\* ------------------------------------------------------------------------
Submitted(id) == \E k \in 1..Len(sent) : sent[k].msg = id

\* C11 (as claimed): every enqueued message is submitted to the sink, also
\* the ones in the queue or in the accumulating batch when the transport
\* fails: once main has returned after the failure, none is left unsent.
C11_EnqueuedIsSubmittedAtShutdown ==
    main_pc = "returned" => \A id \in 1..produced : Submitted(id)

\* C12 (as claimed): after a connection error in the subscriber the program
\* ends with an error, never by main returning normally.
C12_TransportFailureEndsAsError ==
    (subscriber_pc = "failed" /\ main_pc # "gather") => main_pc = "raised"

\* C13 (as claimed): while both coroutines run, the subscriber can enqueue
\* the next message, whatever the writer is doing.
C13_ProducerNeverHeldUp ==
    ( /\ main_pc = "gather"
      /\ subscriber_pc = "run"
      /\ writer_pc \in {"call", "suspended", "process"}
      /\ produced < MaxMessages )
        => ENABLED SubscriberPut

\* C14: every batch passed to process_items holds at least one and at most
\* max_send_messages messages, and a batch smaller than max_send_messages is
\* passed only at or after the deadline.
C14_BatchNonEmptyBoundedClosedForCause ==
    /\ \A b \in 1..Len(handed) :
          /\ Len(handed[b]) >= 1
          /\ Len(handed[b]) <= max_send_messages
    /\ writer_pc = "process" =>
          \/ Len(pi.items) = max_send_messages
          \/ now >= time_limit

\* One batch was closed by the deadline below the size limit, after it a
\* second one.
C14_Witness ==
    /\ max_send_messages = 2
    /\ Len(handed) = 2
    /\ Len(handed[1]) = 1
    /\ writer_pc = "process"

\* ------------------------------------------------------------------------
\* Tags and values of the Readings (SpecTags: process_items on one message)
\* ------------------------------------------------------------------------
\* The override resolved for a Reading's effective topic
OverrideOfReading(r) ==
    get_topic_override_config(loaded, <<>>, r.vt, TRUE).res

\* The fragment a Reading was made of
FragmentOfReading(r) ==
    Decompose(pi.items[1].topic, pi.items[1].payload,
              OverrideOfReading([vt |-> TopicKey(pi.items[1].topic)])).v[r.frag].vp

\* The topic, with the ":subvalue" suffix when there is one
EffectiveTopic(vt) ==
    IF vt.is_sub THEN SubKey(vt.topic, vt.sub) ELSE vt.topic

IsNumericTag(t) == t = ArrivalTime \/ (t.tok # "" /\ IsNumber(t.tok))

\* The payload's timestamp when it parses as a number, otherwise the
\* arrival time
TimestampOfFragment(vp) ==
    IF /\ IsDict(vp)
       /\ DictHas(vp, TIMESTAMP_KEY)
       /\ IsTagScalar(DictAt(vp, TIMESTAMP_KEY))
       /\ normalize_timestamp(DictAt(vp, TIMESTAMP_KEY).tok) # TagNone
    THEN normalize_timestamp(DictAt(vp, TIMESTAMP_KEY).tok)
    ELSE ArrivalTime

\* C15 (as claimed): every Reading has a topic tag equal to its effective
\* topic, a property tag, and a numeric timestamp tag, which is the
\* payload's timestamp when that parses as a number and the arrival time
\* otherwise.
C15_TopicPropertyTimestampTags ==
    \A i \in 1..Len(sent) :
        LET r == sent[i]
        IN  /\ TOPIC_KEY \in DOMAIN r.tags
            /\ r.tags[TOPIC_KEY] = TagStr(EffectiveTopic(r.vt))
            /\ PROPERTY_KEY \in DOMAIN r.tags
            /\ TIMESTAMP_KEY \in DOMAIN r.tags
            /\ IsNumericTag(r.tags[TIMESTAMP_KEY])
            /\ r.tags[TIMESTAMP_KEY]
                   = TimestampOfFragment(FragmentOfReading(r))

\* The override supplies a tag: as a field of its own or as an extra tag
OverrideSupplies(ov, key) ==
    key \in DOMAIN ov.sc \/ key \in DOMAIN ExtraTags(ov)

\* C16 (as claimed): a Reading has an app, context or thing tag exactly when
\* the topic matches the structural pattern or the override supplies it; on
\* a non-matching topic without such an override there is no context_N tag
\* either, whatever the payload holds.
C16_StructuralTagsOnlyFromTopicOrOverride ==
    \A i \in 1..Len(sent) :
        LET r == sent[i]
            ov == OverrideOfReading(r)
            matched == TOPIC_MATCHER(r.vt.topic).matched
        IN  /\ \A key \in {"app", "context", "thing"} :
                  key \in DOMAIN r.tags
                      <=> (matched \/ OverrideSupplies(ov, key))
            /\ \A n \in 1..Len(ContextTagNames) :
                  (~matched /\ ~OverrideSupplies(ov, "context")
                            /\ ~OverrideSupplies(ov, ContextTagNames[n]))
                      => ContextTagNames[n] \notin DOMAIN r.tags

HasSpace(cs) == \E i \in 1..Len(cs) : cs[i] = " "

\* C17 (as claimed): on a topic that matches the structural pattern the
\* app, context, thing and property tags taken from the topic hold no space.
C17_NoSpaceInStructuralTags ==
    \A i \in 1..Len(sent) :
        LET r == sent[i]
        IN  TOPIC_MATCHER(r.vt.topic).matched =>
                \A key \in {"app", "context", "thing", PROPERTY_KEY} :
                    key \in DOMAIN r.tags => ~HasSpace(r.tags[key].cs)

\* The structural tags of a Reading: what the topic and the override's own
\* fields give
StructuralTagsOfReading(r) ==
    StructuralTags(r.vt, OverrideOfReading(r), TOPIC_MATCHER(r.vt.topic))

\* The payload tags of a Reading
PayloadTagsOfReading(r) ==
    PayloadTagsOf(FragmentOfReading(r),
                  extract_value(FragmentOfReading(r), OverrideOfReading(r).vr))

\* C18: on a name collision an extra tag of the override is what the Reading
\* carries, whatever the structural and payload tags are; a structural tag
\* that no extra tag replaces is carried whatever the payload tags are; a
\* payload tag is carried only under a name that neither of them uses.
C18_TagPrecedence ==
    \A i \in 1..Len(sent) :
        LET r == sent[i]
            extra == ExtraTags(OverrideOfReading(r))
            structural == StructuralTagsOfReading(r)
            payload == PayloadTagsOfReading(r)
        IN  /\ \A k \in DOMAIN extra :
                  k \in DOMAIN r.tags /\ r.tags[k] = extra[k]
            /\ \A k \in DOMAIN structural \ DOMAIN extra :
                  k \in DOMAIN r.tags /\ r.tags[k] = structural[k]
            /\ \A k \in DOMAIN payload \ (DOMAIN structural \cup DOMAIN extra) :
                  (k # TIMESTAMP_KEY \/ payload[k] # TagNone) =>
                      k \in DOMAIN r.tags /\ r.tags[k] = payload[k]

\* A Reading with one name (app) in all three sources with three different
\* values, and one name (topic) in the payload and the structure only.
C18_Witness ==
    \E i \in 1..Len(sent) :
        LET r == sent[i]
            extra == ExtraTags(OverrideOfReading(r))
            structural == StructuralTagsOfReading(r)
            payload == PayloadTagsOfReading(r)
        IN  /\ "app" \in DOMAIN extra \cap DOMAIN structural \cap DOMAIN payload
            /\ extra["app"] # structural["app"]
            /\ extra["app"] # payload["app"]
            /\ structural["app"] # payload["app"]
            /\ TOPIC_KEY \in (DOMAIN structural \cap DOMAIN payload) \ DOMAIN extra
            /\ structural[TOPIC_KEY] # payload[TOPIC_KEY]
            /\ "t" \in DOMAIN extra \cap DOMAIN payload
            /\ extra["t"] # payload["t"]

\* The message process_items was called on is not decomposed: its payload
\* is a scalar, or a dict with neither `values` nor json_multi_value.
OneFragment ==
    /\ pi.pc \in {"returned", "raised"}
    /\ Len(pi.items) = 1
    /\ \/ pi.items[1].payload.json # "valid"
       \/ /\ IsDict(pi.items[1].payload.j)
          /\ ~DictHas(pi.items[1].payload.j, VALUES_KEY)
          /\ DictHas(pi.items[1].payload.j, VALUE_KEY)

\* The scalar payload, or the `value` of the dict payload
IncomingValue ==
    IF IsDict(pi.items[1].payload.j)
    THEN DictAt(pi.items[1].payload.j, VALUE_KEY).tok
    ELSE pi.items[1].payload.j.tok

\* The override resolved for the message's topic
OverrideOfMessage ==
    OverrideOfReading([vt |-> TopicKey(pi.items[1].topic)])

\* nan and inf, as numbers and as text
NotFinite == {"f:nan", "f:inf", "s:nan", "s:inf"}

IsNumeric(v) ==
    /\ v \notin NotFinite
    /\ \/ IsNumber(v)
       \/ IsStr(v) /\ (PyInt(v).exc = "none" \/ PyFloat(v).exc = "none")

\* The number: an integer when the text parses as one, otherwise a float
NumberOf(v) ==
    IF IsNumber(v) THEN v
    ELSE IF PyInt(v).exc = "none" THEN PyInt(v).v
    ELSE PyFloat(v).v

\* <prefix><property><suffix> of a Reading
IsNamed(r, suffix) ==
    /\ r.name.suffix = suffix
    /\ r.name.property = r.tags[PROPERTY_KEY]
    /\ r.name.prefix =
          IF METRIC_PREFIX_KEY \in DOMAIN OverrideOfMessage.sc
          THEN TagTok(OverrideOfMessage.sc[METRIC_PREFIX_KEY])
          ELSE TagTok(DEFAULT_METRIC_PREFIX)

\* C19 (as claimed): without a replacement table, a scalar payload or
\* `value` that is a finite number or the text of one gives exactly one
\* Reading <prefix><property> with that number, an integer when it parses as
\* one and a float otherwise; any other text gives exactly one Reading
\* <prefix><property>_info with value 1 and the text, cut to max_str_len
\* characters, as its val tag.
C19_NumberOrInfoReading ==
    (OneFragment /\ DOMAIN OverrideOfMessage.vr = {}) =>
        IF IsNumeric(IncomingValue)
        THEN /\ Len(sent) = 1
             /\ sent[1].kind = "num"
             /\ sent[1].value = NumberOf(IncomingValue)
             /\ IsNamed(sent[1], "")
        ELSE IF IsStr(IncomingValue) /\ IncomingValue \notin NotFinite
        THEN /\ Len(sent) = 1
             /\ sent[1].kind = "info"
             /\ sent[1].value = "i:1"
             /\ IsNamed(sent[1], STRING_LABEL_SUFFIX)
             /\ VAL_KEY \in DOMAIN sent[1].tags
             /\ sent[1].tags[VAL_KEY] = TagTok(Truncate(IncomingValue))
        ELSE TRUE

\* C20 (as claimed): when the value_replacement table of the resolved
\* override has an entry for the incoming value, the Reading carries exactly
\* the entry's replacement: a number as the value of a numeric Reading, a
\* text unchanged as the val tag of an _info Reading.
C20_ReplacementIsEmittedAsIs ==
    (OneFragment /\ DictKey(IncomingValue) \in DOMAIN OverrideOfMessage.vr) =>
        \A i \in 1..Len(sent) :
            LET r == sent[i]
                replacement == OverrideOfMessage.vr[DictKey(IncomingValue)]
            IN  IF IsNumber(replacement)
                THEN r.kind = "num" /\ r.value = replacement
                ELSE IsStr(replacement) =>
                        /\ r.kind = "info"
                        /\ VAL_KEY \in DOMAIN r.tags
                        /\ r.tags[VAL_KEY] = TagTok(replacement)

\* ------------------------------------------------------------------------
\* Fragments and their Readings
\* ------------------------------------------------------------------------
\* The fragment process_items is about to send is a JSON object without a
\* `value` key.
FragmentWithoutValue ==
    /\ pi.pc = "fragment"
    /\ IsDict(Head(pi.values).vp)
    /\ ~DictHas(Head(pi.values).vp, VALUE_KEY)

NewReading == sent'[Len(sent')]

FragmentValueUndetermined ==
    /\ pi.pc = "fragment"
    /\ IsDict(Head(pi.values).vp)
    /\ DictHas(Head(pi.values).vp, VALUE_KEY)
    /\ normalize_value(DictAt(Head(pi.values).vp, VALUE_KEY).tok,
                       FragmentOverride(Head(pi.values)).res.vr).exc
           = "ValueError"

\* The text of a JSON object without its `value` key
TextWithoutValue(vp) ==
    IF DictWithout(vp, VALUE_KEY).items = <<>> THEN "s:{}" ELSE "s:{...}"

MessageWithValuesMapping ==
    /\ pi.pc = "message"
    /\ pi.i <= Len(pi.items)
    /\ pi.items[pi.i].payload.json = "valid"
    /\ IsDict(pi.items[pi.i].payload.j)
    /\ DictHas(pi.items[pi.i].payload.j, VALUES_KEY)
    /\ IsDict(DictAt(pi.items[pi.i].payload.j, VALUES_KEY))

\* The keys of a JSON object
KeysOf(o) == {o.items[i].k : i \in 1..Len(o.items)}

\* The fragment vp is the object `top` without `values`, overlaid by the
\* entry v: by its keys when it is a mapping, as `value` otherwise.
IsOverlay(vp, top, v) ==
    LET entry == IF IsDict(v) THEN v ELSE Obj(<<Item(VALUE_KEY, v)>>)
    IN  /\ IsDict(vp)
        /\ KeysOf(vp) = (KeysOf(top) \ {VALUES_KEY}) \cup KeysOf(entry)
        /\ Len(vp.items) = Cardinality(KeysOf(vp))
        /\ \A k \in KeysOf(vp) :
              DictAt(vp, k) = IF k \in KeysOf(entry) THEN DictAt(entry, k)
                              ELSE DictAt(top, k)

\* C23: a JSON object whose `values` member is a mapping with n entries is
\* decomposed into exactly n fragments; the fragment of entry (k, v) has the
\* effective topic topic:k and holds the object's other top-level keys
\* overlaid by the keys of v, or by v as `value` when v is a scalar.
C23_ValuesMappingFragments ==
    [][MessageWithValuesMapping =>
          LET top == pi.items[pi.i].payload.j
              vs == DictAt(top, VALUES_KEY).items
          IN  IF vs = <<>>
              THEN pi'.pc = "message" /\ pi'.i = pi.i + 1
              ELSE /\ pi'.pc = "fragment"
                   /\ Len(pi'.values) = Len(vs)
                   /\ \A n \in 1..Len(vs) :
                         /\ pi'.values[n].vt.is_sub
                         /\ EffectiveTopic(pi'.values[n].vt)
                                = SubKey(pi.items[pi.i].topic, Chars(vs[n].k))
                         /\ IsOverlay(pi'.values[n].vp, top, vs[n].v)]_vars

\* Two fragments were made of a `values` mapping: one of a mapping entry
\* whose key k replaced the top-level k, one of a scalar entry that replaced
\* the top-level value.
C23_Witness ==
    /\ pi.pc = "fragment"
    /\ pi.items[1].payload = PT_values_tags
    /\ Len(pi.values) = 2
    /\ DictAt(pi.values[1].vp, "k") = Sc("s:foo")
    /\ DictAt(pi.values[1].vp, "u") = Sc("s:bar")
    /\ DictAt(pi.values[2].vp, VALUE_KEY) = Sc("i:42")
    /\ DictAt(pi.values[2].vp, "k") = Sc("s:bar")

\* process_items is about to decompose a JSON array.
MessageWithArray ==
    /\ pi.pc = "message"
    /\ pi.i <= Len(pi.items)
    /\ pi.items[pi.i].payload.json = "valid"
    /\ IsList(pi.items[pi.i].payload.j)

\* One fragment per element, under the unchanged topic
OneFragmentPerElement ==
    LET topic == pi.items[pi.i].topic
        elements == pi.items[pi.i].payload.j.items
    IN  /\ pi'.pc = "fragment"
        /\ Len(pi'.values) = Len(elements)
        /\ \A n \in 1..Len(elements) :
              /\ ~pi'.values[n].vt.is_sub
              /\ EffectiveTopic(pi'.values[n].vt) = topic
              /\ pi'.values[n].vp = elements[n].v

\* C24 (as claimed): a JSON array is decomposed into one fragment per
\* element under the unchanged topic, whatever the override of the topic.
C24_ArrayElementsAreFragments ==
    [][MessageWithArray => OneFragmentPerElement]_vars

\* json_multi_value of the override resolved for the message's topic
MultiValueResolved ==
    get_topic_override_config(override, cache,
                              TopicKey(pi.items[pi.i].topic),
                              pi.disable_cache).res.sc

\* C24 (amended): a JSON array is decomposed into one fragment per element
\* under the unchanged topic when the override resolved for the topic does
\* not set json_multi_value to true.
C24_ArrayElementsAreFragmentsUnlessMultiValue ==
    [][(MessageWithArray
           /\ ~(/\ JSON_MULTI_VALUE_KEY \in DOMAIN MultiValueResolved
                /\ MultiValueResolved[JSON_MULTI_VALUE_KEY] = PY_TRUE))
          => OneFragmentPerElement]_vars

\* An array of two elements was decomposed under an override without
\* json_multi_value.
C24_Witness ==
    /\ pi.pc = "fragment"
    /\ pi.items[pi.i].payload = PL_list
    /\ pi.topic_override.sc # EmptyDict
    /\ Len(pi.values) = 2
    /\ ~pi.values[1].vt.is_sub

\* C25 (as claimed): when process_items has returned and the sink accepted
\* every send, each message of the batch has at least one Reading.
C25_EveryMessageGivesAReading ==
    (pi.pc = "returned" /\ \A n \in 1..Len(sent) : sent[n].ok) =>
        \A m \in 1..Len(pi.items) :
            \E n \in 1..Len(sent) : sent[n].msg = pi.items[m].id

\* ------------------------------------------------------------------------
\* The writer's deadline
\* ------------------------------------------------------------------------
\* C26 (as claimed): time_limit changes only in a step taken when the
\* deadline has passed.
C26_DeadlineMovedOnlyWhenPassed ==
    [][time_limit' # time_limit => now >= time_limit]_vars

\* C26 (amended): time_limit changes only in a step taken when the deadline
\* has passed or is less than 0.1 s ahead, and it becomes now + max_time;
\* a deadline 0.1 s or more ahead is left unchanged, also when a batch was
\* closed by the size limit.
C26_DeadlineMovedOnlyWithinSlack ==
    [][/\ time_limit' # time_limit =>
              /\ time_limit - now < Slack
              /\ time_limit' = now + max_time
       /\ (time_limit - now >= Slack) => time_limit' = time_limit]_vars

\* The deadline was moved while it was still ahead: the new deadline is
\* later than one full period after the old one would have allowed.
C26_Witness ==
    /\ max_time = TicksPerSecond
    /\ time_limit = 2 * TicksPerSecond - 1
    /\ Len(handed) >= 1


\* ------------------------------------------------------------------------
\* Specification SpecSort: the resolver over tables whose keys tie in score
\* for the topic dt/a/c/t/p, in every insertion order.
\* ------------------------------------------------------------------------
\* dt/+/c/t/+ and dt/a/+/+/p: exact score 49.4 each
P_tieLow == <<"d", "t", "/", "+", "/", "c", "/", "t", "/", "+">>
P_tieHigh == <<"d", "t", "/", "a", "/", "+", "/", "+", "/", "p">>
\* dt/+/+/t/p and dt/a/c/t/+: exact score 51.0 each
P_eqA == <<"d", "t", "/", "+", "/", "+", "/", "t", "/", "p">>
P_eqB == <<"d", "t", "/", "a", "/", "c", "/", "t", "/", "+">>
\* dt/#
P_dtHash == <<"d", "t", "/", "#">>

SortPatterns == {P_tieLow, P_tieHigh, P_eqA, P_eqB, P_dtHash, P_ab}

MaxSortTable == 3

SortValueOf(p) == IF p \in {P_tieHigh, P_eqB} THEN V_two ELSE V_one

\* Every table of at most MaxSortTable distinct keys, in every order.
SortTables ==
    UNION { { [i \in 1..n |-> [key |-> ks[i], val |-> SortValueOf(ks[i])]]
              : ks \in { f \in [1..n -> SortPatterns] :
                           \A i, j \in 1..n : f[i] = f[j] => i = j } }
            : n \in 0..MaxSortTable }

InitSort ==
    /\ loaded \in SortTables
    /\ override = loaded
    /\ cache = <<>>
    /\ last = NoCall
    /\ pi = PiIdle
    /\ sent = <<>>
    /\ WriterOff

SortKeys == {TopicKey(T_plain), TopicKey(P_ab)}

ResolveSortBypass == \E key \in SortKeys : Resolve(key, TRUE)

ResolveSortCached == \E key \in SortKeys : Resolve(key, FALSE)

NextSort == ResolveSortBypass \/ ResolveSortCached

SpecSort == InitSort /\ [][NextSort]_vars

\* Position of a key in a sequence of keys.
PositionIn(keys, k) == CHOOSE i \in 1..Len(keys) : keys[i] = k

\* C27: sort_subs_by_specificity returns exactly the table keys that match
\* the topic, each once, in ascending order of the score
\* sum((index+1)*weight), and keys of equal score in their table insertion
\* order.
C27_SortedByScoreTiesInInsertionOrder ==
    last.called =>
        LET keys == TableKeys(loaded)
            r == sort_subs_by_specificity(last.key.topic, keys)
        IN  /\ { r[i] : i \in 1..Len(r) } =
                   { keys[i] : i \in
                       { j \in 1..Len(keys) :
                           topic_matches_sub(keys[j], last.key.topic) } }
            /\ \A i, j \in 1..Len(r) : r[i] = r[j] => i = j
            /\ \A i, j \in 1..Len(r) :
                   i < j => Specificity(r[i]) <= Specificity(r[j])
            /\ \A i, j \in 1..Len(r) :
                   (i < j /\ Specificity(r[i]) = Specificity(r[j]))
                       => PositionIn(keys, r[i]) < PositionIn(keys, r[j])


\* C28: with the cache enabled, a call of get_topic_override_config returns
\* what a cache-bypassed resolution against the table passed in that same
\* call returns, after any sequence of earlier calls.
C28_CachedEqualsBypass ==
    [][(last'.called /\ ~last'.disable_cache)
          => last'.res =
                 get_topic_override_config(override, <<>>, last'.key,
                                           TRUE).res]_vars


\* ------------------------------------------------------------------------
\* Specification SpecLive: the pipeline with the event loop's scheduling.
\* A coroutine that can run is run (src/main.py:969-993), and process_items
\* is a plain call that runs to its end; the clock and the arrival of
\* messages are left free.
\* ------------------------------------------------------------------------
WriterFairness ==
    /\ WF_vars(WriterWaitFor)
    /\ WF_vars(WriterGets)
    /\ WF_vars(WriterTimeout)
    /\ WF_vars(ProcessMessage)
    /\ WF_vars(SendReturns \/ SendRaises)
    /\ WF_vars(WriterResume)
    /\ WF_vars(WriterCrash)

SpecLive == Init /\ [][Next]_vars /\ WriterFairness

Enqueued(id) == \E k \in 1..Len(queue) : queue[k].id = id

Processed(id) ==
    \E b \in 1..Len(handed) : \E k \in 1..Len(handed[b]) : handed[b][k] = id

\* Dequeued into the batch that is still open, its deadline ahead: the batch
\* is closed when the clock reaches the deadline.
AwaitsDeadline(id) ==
    /\ \E k \in 1..Len(items_to_process) : items_to_process[k].id = id
    /\ now < time_limit

\* C29: for every max_time >= 0 and max_send_messages >= 1, a message that
\* is in the queue is eventually dequeued, and handed to process_items
\* unless its batch still awaits its deadline, as long as the consumer keeps
\* running (it has not ended with an exception), also when the deadline has
\* elapsed at the time the consumer waits.
C29_EnqueuedIsEventuallyProcessed ==
    \A id \in 1..MaxMessages :
        Enqueued(id) ~> (\/ Processed(id)
                         \/ AwaitsDeadline(id)
                         \/ writer_pc = "crashed")

\* The first lookup of find_value_replacement hits (src/main.py:550-594)
ReplacementHit ==
    /\ OneFragment
    /\ DictKey(Truncate(IncomingValue)) \in DOMAIN OverrideOfMessage.vr

ReplacementOfIncoming ==
    OverrideOfMessage.vr[DictKey(Truncate(IncomingValue))]

ParsesAsNumber(v) ==
    IsNumber(v) \/ PyInt(v).exc = "none" \/ PyFloat(v).exc = "none"

\* What a value gives when it is parsed and never looked up
ParsedOnly(v) == IF ParsesAsNumber(v) THEN NumberOf(v) ELSE Truncate(v)

\* C30: value replacement is applied at most once per value: the Reading of
\* a value that has an entry in the table carries the entry's replacement
\* (parsed as a number where it parses), also when the replacement, or the
\* number it parses to, is itself a key of the table.
C30_ReplacementAppliedOnce ==
    ReplacementHit =>
        \A i \in 1..Len(sent) :
            IF ParsesAsNumber(ReplacementOfIncoming)
            THEN /\ sent[i].kind = "num"
                 /\ sent[i].value = ParsedOnly(ReplacementOfIncoming)
            ELSE IsStr(ReplacementOfIncoming) =>
                    /\ sent[i].kind = "info"
                    /\ VAL_KEY \in DOMAIN sent[i].tags
                    /\ sent[i].tags[VAL_KEY] =
                           TagTok(ParsedOnly(ReplacementOfIncoming))

\* A replaced value whose replacement is a key of the table was sent.
C30_Witness ==
    /\ ReplacementHit
    /\ DictKey(ParsedOnly(ReplacementOfIncoming))
           \in DOMAIN OverrideOfMessage.vr
    /\ Len(sent) = 1
    /\ sent[1].ok

====
